---- MODULE Spec2Model ----
(***************************************************************************)
(* ts-dynamics-web-api: export of Dynamics 365 entity metadata            *)
(* (attributes, relationships, forms, views, business rules) to one Excel *)
(* workbook per entity.                                                    *)
(*                                                                         *)
(* The module holds three state machines over one set of variables:       *)
(*   SpecMap    the five field mappers applied to bounded raw records     *)
(*   SpecFetch  one call of a category fetcher against a paged API        *)
(*   Spec       the workbook export (processEntityAll and                  *)
(*              createWorkbookForEntity) over a small file system, the    *)
(*              diagram phase of processEntityAll, and the run driver     *)
(*              that calls processEntityAll for a list of entities        *)
(***************************************************************************)
EXTENDS Integers, Sequences, FiniteSets, TLC

VARIABLES
    \* ---- SpecMap: a mapper applied to a raw record
    mcat,       \* the category whose mapper is applied
    raw,        \* the raw record handed to the mapper
    row,        \* the mapped row the mapper returned
    edits,      \* how many fields of raw differ from the sample record
    \* ---- SpecFetch and Spec: one category fetcher call
    server,     \* the API's data: collection -> sequence of pages
    fetcher,    \* the category fetcher in progress ("none" when idle)
    coll,       \* index of the collection the fetcher is paging through
    nextLink,   \* the local nextLink of the paging loop
    results,    \* the local results / allAttributes of the paging loop
    parts,      \* results of the collections already fetched (relationships)
    inflight,   \* the URL of the GET being awaited (NoUrl when none)
    requests,   \* every GET issued so far, in order
    faults,     \* every failure the API or the transport raised: <<url, error>>
    fetched,    \* how the fetcher's promise settled
    \* ---- Spec: the workbook export
    entry,      \* the exported function that was called
    pc,         \* the statement the function has reached
    workbook,   \* the in-memory ExcelJS workbook: a sequence of sheets
    outputsDir, \* whether ./outputs exists
    files,      \* the files of ./outputs: path -> sheets written
    notices,    \* console.log / console.error lines, in order
    settled,    \* how the called function's promise settled
    history,    \* facts of the run the claims speak about
    \* ---- Spec: the diagram phase of processEntityAll
    transformedRelationships, \* the mapped rows of the second relationship fetch
    typeIx,     \* position of the diagram loop in relationshipTypes (0 before the loop)
    rendering,  \* the promise of the generateRelationshipDiagram call awaited
    renderer,   \* the dot process started by exec, and the error it ended with
    diagramFiles, \* the files of the diagrams directory: name -> content
    \* ---- SpecOverlap: generateRelationshipDiagram called again before it settled
    overlap,    \* the invocations: their arguments, dot processes and promises
    \* ---- Spec: the run driver of index.ts
    env,        \* process.env: TENANT_ID, CLIENT_ID, CLIENT_SECRET
    tokenPost,  \* the token POST: "none", "sent", "answered", "failed"
    accessToken, \* the value getAccessToken returned
    position,   \* index of the entity being processed in listOfEntites
    exit        \* how the process ended: "running", or its exit code

mapVars == <<mcat, raw, row, edits>>

fetchVars == <<server, fetcher, coll, nextLink, results, parts, inflight, requests, faults, fetched>>

bookVars == <<entry, pc, workbook, outputsDir, files, notices, settled, history>>

diagVars == <<transformedRelationships, typeIx, rendering, renderer, diagramFiles, overlap>>

runVars == <<env, tokenPost, accessToken, position, exit>>

vars == <<mcat, raw, row, edits, server, fetcher, coll, nextLink, results, parts, inflight, requests, faults, fetched, entry, pc, workbook, outputsDir, files, notices, settled, history, transformedRelationships, typeIx, rendering, renderer, diagramFiles, overlap, env, tokenPost, accessToken, position, exit>>

(***************************************************************************)
(* JavaScript values.  A value is a pair <<type, payload>> so that values *)
(* of different types can be compared.  An absent property reads as       *)
(* undefined, as it does in JavaScript.                                    *)
(***************************************************************************)
Undefined == <<"undefined", 0>>

Null == <<"null", 0>>

Str(s) == <<"string", s>>

Num(n) == <<"number", n>>

Bool(b) == <<"boolean", b>>

Obj(o) == <<"object", o>>

Arr(a) == <<"array", a>>

IsNullish(v) == v[1] \in {"undefined", "null"}

\* ToBoolean: undefined, null, "", 0 and false are falsy; objects and arrays are truthy
Truthy(v) ==
    CASE v[1] \in {"undefined", "null"} -> FALSE
      [] v[1] = "string" -> v[2] # ""
      [] v[1] = "number" -> v[2] # 0
      [] v[1] = "boolean" -> v[2]
      [] OTHER -> TRUE

\* a || d
Or(a, d) == IF Truthy(a) THEN a ELSE d

\* a ?? d
Nullish(a, d) == IF IsNullish(a) THEN d ELSE a

\* c ? a : b
Cond(c, a, b) == IF Truthy(c) THEN a ELSE b

\* o.k and o[k] on the raw record (a function from property names to values)
Get(o, k) == IF k \in DOMAIN o THEN o[k] ELSE Undefined

\* v?.k: undefined when v is null or undefined; a primitive has no such property
OptGet(v, k) == IF v[1] = "object" THEN Get(v[2], k) ELSE Undefined

\* v?.[0]
OptFirst(v) == IF v[1] = "array" /\ Len(v[2]) > 0 THEN v[2][1] ELSE Undefined

\* Lookup with a truthiness test on the code, which loses code 0
LookupTruthyCode(table, code) ==
    IF Truthy(code) /\ code[1] = "number" /\ code[2] \in DOMAIN table THEN Str(table[code[2]]) ELSE Undefined

\* table[code]: the property of a Record<number, string> named by a numeric code
Lookup(table, code) ==
    IF code[1] = "number" /\ code[2] \in DOMAIN table THEN Str(table[code[2]]) ELSE Undefined

\* Object.keys(row): the keys of an object literal, in insertion order
ObjectKeys(r) == [i \in DOMAIN r |-> r[i][1]]

\* row[key]
RowGet(r, k) == IF \E i \in DOMAIN r : r[i][1] = k THEN r[CHOOSE i \in DOMAIN r : r[i][1] = k][2] ELSE Undefined

(***************************************************************************)
(* Lookup tables of the coded fields.                                      *)
(***************************************************************************)
formActivationStates == (0 :> "Inactive") @@ (1 :> "Active")

formComponentStates == (0 :> "Published") @@ (1 :> "Unpublished") @@ (2 :> "Deleted") @@ (3 :> "Deleted Unpublished")

formPresentationStates == (0 :> "ClassicForm") @@ (1 :> "AirForm") @@ (2 :> "ConvertedICForm")

formTypes ==
    (0 :> "Dashboard") @@ (1 :> "AppointmentBook") @@ (2 :> "Main") @@ (3 :> "MiniCampaignBO")
    @@ (4 :> "Preview") @@ (5 :> "Mobile - Express") @@ (6 :> "Quick View Form")
    @@ (7 :> "Quick Create") @@ (8 :> "Dialog") @@ (9 :> "Task Flow Form")
    @@ (10 :> "InteractionCentricDashboard") @@ (11 :> "Card")
    @@ (12 :> "Main - Interactive Experience") @@ (13 :> "Conceptual Dashboard")
    @@ (100 :> "Other") @@ (101 :> "MainBackup") @@ (102 :> "AppointmentBookBackup")
    @@ (103 :> "Power BI Dashboard")

viewComponentStates == (0 :> "Published") @@ (1 :> "Unpublished") @@ (2 :> "Deleted") @@ (3 :> "Deleted Unpublished")

businessRuleStatusCode == (1 :> "Draft") @@ (2 :> "Activated") @@ (3 :> "CompanyDLPViolation")

businessRuleType == (0 :> "Business Flow") @@ (1 :> "Task Flow")

businessRuleCategory ==
    (0 :> "Workflow") @@ (1 :> "Dialog") @@ (2 :> "Business Rule") @@ (3 :> "Action")
    @@ (4 :> "Business Process Flow") @@ (5 :> "Modern Flow") @@ (6 :> "Desktop Flow")
    @@ (7 :> "AI Flow")

businessRuleScope == (1 :> "User") @@ (2 :> "Business Unit") @@ (3 :> "Parent: Child Business Unit") @@ (4 :> "Organization")

businessRuleComponentState == (0 :> "Published") @@ (1 :> "Unpublished") @@ (2 :> "Deleted") @@ (3 :> "Deleted Unpublished")

(***************************************************************************)
(* The field mappers.  A mapped row is the sequence of <<key, value>>     *)
(* pairs of the returned object literal, in the order the literal lists   *)
(* them.                                                                   *)
(***************************************************************************)
transformAttribute(attribute) ==
    << <<"Name", Or(Get(attribute, "SchemaName"), Str(""))>>,
       <<"Data Type", Or(Get(attribute, "AttributeType"), Str(""))>>,
       <<"Entity", Or(Get(attribute, "EntityLogicalName"), Str(""))>>,
       <<"Custom", Nullish(Get(attribute, "IsCustomAttribute"), Str(""))>>,
       <<"Primary ID", Nullish(Get(attribute, "IsPrimaryId"), Str(""))>>,
       <<"Managed", Nullish(Get(attribute, "IsManaged"), Str(""))>>,
       <<"Description", Nullish(OptGet(OptFirst(OptGet(Get(attribute, "Description"), "LocalizedLabels")), "Label"), Str(""))>>,
       <<"Audited", Nullish(OptGet(Get(attribute, "IsAuditEnabled"), "Value"), Str(""))>>,
       <<"Customizable", Nullish(OptGet(Get(attribute, "IsCustomizable"), "Value"), Str(""))>>,
       <<"Required", Nullish(OptGet(Get(attribute, "RequiredLevel"), "Value"), Str(""))>>,
       <<"Date Behavior", Nullish(OptGet(Get(attribute, "DateTimeBehavior"), "Value"), Str(""))>>,
       <<"Format", Nullish(OptGet(Get(attribute, "FormatName"), "Value"), Str(""))>> >>

transformRelationship(rel) ==
    << <<"Schema Name", Or(Get(rel, "SchemaName"), Str(""))>>,
       <<"Security Types", Or(Get(rel, "SecurityTypes"), Str(""))>>,
       <<"Managed", Nullish(Get(rel, "IsManaged"), Str(""))>>,
       <<"Type", Or(Get(rel, "RelationshipType"), Str(""))>>,
       <<"Attribute Ref.", Or(Get(rel, "ReferencedAttribute"), Str(""))>>,
       <<"Entity Ref.", Or(Get(rel, "ReferencedEntity"), Str(""))>>,
       <<"Referencing Attribute", Or(Get(rel, "ReferencingAttribute"), Str(""))>>,
       <<"Referencing Entity", Or(Get(rel, "ReferencingEntity"), Str(""))>>,
       <<"Hierarchical", Nullish(Get(rel, "IsHierarchical"), Str(""))>>,
       <<"Behavior", Nullish(Get(rel, "RelationshipBehavior"), Str(""))>>,
       <<"Customizable", Nullish(OptGet(Get(rel, "IsCustomizable"), "Value"), Str(""))>>,
       <<"Menu Behavior", Nullish(OptGet(Get(rel, "AssociatedMenuConfiguration"), "Behavior"), Str(""))>>,
       <<"Menu Customization", Nullish(OptGet(Get(rel, "AssociatedMenuConfiguration"), "IsCustomizable"), Str(""))>>,
       <<"Assign", Nullish(OptGet(Get(rel, "CascadeConfiguration"), "Assign"), Str(""))>>,
       <<"Delete", Nullish(OptGet(Get(rel, "CascadeConfiguration"), "Delete"), Str(""))>>,
       <<"Archive", Nullish(OptGet(Get(rel, "CascadeConfiguration"), "Archive"), Str(""))>>,
       <<"Merge", Nullish(OptGet(Get(rel, "CascadeConfiguration"), "Merge"), Str(""))>>,
       <<"Reparent", Nullish(OptGet(Get(rel, "CascadeConfiguration"), "Reparent"), Str(""))>>,
       <<"Share", Nullish(OptGet(Get(rel, "CascadeConfiguration"), "Share"), Str(""))>>,
       <<"Unshare", Nullish(OptGet(Get(rel, "CascadeConfiguration"), "Unshare"), Str(""))>>,
       <<"RollupView", Nullish(OptGet(Get(rel, "CascadeConfiguration"), "RollupView"), Str(""))>> >>

transformForm(form) ==
    << <<"Name", Or(Get(form, "name"), Str(""))>>,
       <<"Entity", Or(Get(form, "objecttypecode"), Str(""))>>,
       <<"Activation State", Or(Lookup(formActivationStates, Get(form, "formactivationstate")), Str("Unknown"))>>,
       <<"Component State", Or(Lookup(formComponentStates, Get(form, "componentstate")), Str("Unknown"))>>,
       <<"Presentation State", Or(Lookup(formPresentationStates, Get(form, "formpresentationstate")), Str("Unknown"))>>,
       <<"Is Air Merged", IF Get(form, "isairmerged") = Num(1) THEN Str("Yes") ELSE Str("No")>>,
       <<"Form Type", Or(Lookup(formTypes, Get(form, "type")), Str("Unknown"))>>,
       <<"Description", Or(Get(form, "description"), Str(""))>>,
       <<"Is Default", Cond(Get(form, "isdefault"), Str("Yes"), Str("No"))>>,
       <<"Is Managed", Cond(Get(form, "ismanaged"), Str("Yes"), Str("No"))>>,
       <<"Is Customizable", Cond(Get(form, "iscustomizable/Value"), Str("Yes"), Str("No"))>> >>

\* transformView that leaves out the Description column of a view without one
transformViewSparse(view) ==
    (IF Truthy(Get(view, "description"))
     THEN << <<"Name", Or(Get(view, "name"), Str(""))>>, <<"Description", Get(view, "description")>> >>
     ELSE << <<"Name", Or(Get(view, "name"), Str(""))>> >>)
    \o << <<"Component State", Or(Lookup(viewComponentStates, Get(view, "componentstate")), Str(""))>>,
          <<"Is Default", Or(Get(view, "isdefault"), Bool(FALSE))>>,
          <<"Is Managed", Or(Get(view, "ismanaged"), Bool(FALSE))>>,
          <<"Is Customizable", Nullish(Get(view, "iscustomizable/Value"), Bool(FALSE))>> >>

transformView(view) ==
    << <<"Name", Or(Get(view, "name"), Str(""))>>,
       <<"Description", Or(Get(view, "description"), Str(""))>>,
       <<"Component State", Or(Lookup(viewComponentStates, Get(view, "componentstate")), Str(""))>>,
       <<"Is Default", Or(Get(view, "isdefault"), Bool(FALSE))>>,
       <<"Is Managed", Or(Get(view, "ismanaged"), Bool(FALSE))>>,
       <<"Is Customizable", Nullish(Get(view, "iscustomizable/Value"), Bool(FALSE))>> >>

transformBusinessRule(rule) ==
    << <<"Name", Get(rule, "name")>>,
       <<"Scope", Or(Lookup(businessRuleScope, Get(rule, "scope")), Str(""))>>,
       <<"Is Managed", Get(rule, "ismanaged")>>,
       <<"Is Customizable", Get(rule, "iscustomizable")>>,
       <<"State Code", Or(Lookup(businessRuleComponentState, Get(rule, "statecode")), Str(""))>>,
       <<"Status Code", Or(Lookup(businessRuleStatusCode, Get(rule, "statuscode")), Str(""))>>,
       <<"Category", Or(Lookup(businessRuleCategory, Get(rule, "category")), Str(""))>>,
       <<"Type", Or(Lookup(businessRuleType, Get(rule, "type")), Str(""))>> >>

\* the object fetchEntityBusinessRules builds from one record of the response
toBusinessRule(rule) ==
    [name |-> Get(rule, "name"),
     scope |-> Get(rule, "scope"),
     ismanaged |-> Get(rule, "ismanaged"),
     iscustomizable |-> Nullish(Get(rule, "iscustomizable/Value"), Bool(FALSE)),
     statecode |-> Get(rule, "statecode"),
     statuscode |-> Get(rule, "statuscode"),
     type |-> Get(rule, "type"),
     category |-> Get(rule, "category")]

Categories == {"attributes", "relationships", "forms", "views", "rules"}

\* the mapper of a category
Mapper(cat, r) ==
    CASE cat = "attributes" -> transformAttribute(r)
      [] cat = "relationships" -> transformRelationship(r)
      [] cat = "forms" -> transformForm(r)
      [] cat = "views" -> transformView(r)
      [] cat = "rules" -> transformBusinessRule(r)

\* a map that loses the first record
MapRowsSkipFirst(cat, rs) ==
    IF rs = << >> THEN << >> ELSE [i \in DOMAIN Tail(rs) |-> Mapper(cat, Tail(rs)[i])]

\* rows.map(mapper)
MapRows(cat, rs) == [i \in DOMAIN rs |-> Mapper(cat, rs[i])]

(***************************************************************************)
(* SpecMap: a mapper applied to raw records.  The raw record starts as a  *)
(* complete sample of its category and is edited one property at a time   *)
(* (removed, set to null, emptied, or given another code); the mapper is  *)
(* then applied to it.                                                     *)
(***************************************************************************)
MaxEdits == 2

NoRow == <<>>

SampleRecord(cat) ==
    CASE cat = "attributes" ->
           [SchemaName |-> Str("AccountNumber"), AttributeType |-> Str("String"),
            EntityLogicalName |-> Str("account"), IsCustomAttribute |-> Bool(FALSE),
            IsPrimaryId |-> Bool(FALSE), IsManaged |-> Bool(TRUE),
            Description |-> Obj([LocalizedLabels |-> Arr(<<Obj([Label |-> Str("Account number")])>>)]),
            IsAuditEnabled |-> Obj([Value |-> Bool(TRUE)]),
            IsCustomizable |-> Obj([Value |-> Bool(TRUE)]),
            RequiredLevel |-> Obj([Value |-> Str("None")]),
            DateTimeBehavior |-> Obj([Value |-> Str("UserLocal")]),
            FormatName |-> Obj([Value |-> Str("Text")])]
      [] cat = "relationships" ->
           [SchemaName |-> Str("account_contacts"), SecurityTypes |-> Str("Append"),
            IsManaged |-> Bool(TRUE), RelationshipType |-> Str("OneToManyRelationship"),
            ReferencedAttribute |-> Str("accountid"), ReferencedEntity |-> Str("account"),
            ReferencingAttribute |-> Str("parentcustomerid"), ReferencingEntity |-> Str("contact"),
            IsHierarchical |-> Bool(FALSE), RelationshipBehavior |-> Num(1),
            IsCustomizable |-> Obj([Value |-> Bool(TRUE)]),
            AssociatedMenuConfiguration |-> Obj([Behavior |-> Str("UseCollectionName"), IsCustomizable |-> Bool(TRUE)]),
            CascadeConfiguration |-> Obj([Assign |-> Str("Cascade"), Delete |-> Str("RemoveLink"),
                                          Archive |-> Str("NoCascade"), Merge |-> Str("Cascade"),
                                          Reparent |-> Str("Cascade"), Share |-> Str("Cascade"),
                                          Unshare |-> Str("Cascade"), RollupView |-> Str("NoCascade")]),
            IsCustomRelationship |-> Bool(FALSE), HasChanged |-> Null]
      [] cat = "forms" ->
           ("iscustomizable/Value" :> Bool(TRUE)) @@
           [name |-> Str("Account"), objecttypecode |-> Str("account"),
            formactivationstate |-> Num(1), componentstate |-> Num(0),
            formpresentationstate |-> Num(1), isairmerged |-> Num(1), type |-> Num(2),
            description |-> Str("Main form"), isdefault |-> Bool(TRUE), ismanaged |-> Bool(TRUE)]
      [] cat = "views" ->
           ("iscustomizable/Value" :> Bool(TRUE)) @@
           [name |-> Str("Active Accounts"), description |-> Str("All active accounts"),
            componentstate |-> Num(0), isdefault |-> Bool(TRUE), ismanaged |-> Bool(TRUE)]
      [] cat = "rules" ->
           [name |-> Str("Require phone"), scope |-> Num(4), ismanaged |-> Bool(TRUE),
            iscustomizable |-> Bool(TRUE), statecode |-> Num(1), statuscode |-> Num(2),
            type |-> Num(1), category |-> Num(2)]

\* the coded columns: <<category, source field, column, lookup table>>
CodedFields ==
    { <<"forms", "formactivationstate", "Activation State", formActivationStates>>,
      <<"forms", "componentstate", "Component State", formComponentStates>>,
      <<"forms", "formpresentationstate", "Presentation State", formPresentationStates>>,
      <<"forms", "type", "Form Type", formTypes>>,
      <<"views", "componentstate", "Component State", viewComponentStates>>,
      <<"rules", "scope", "Scope", businessRuleScope>>,
      <<"rules", "statecode", "State Code", businessRuleComponentState>>,
      <<"rules", "statuscode", "Status Code", businessRuleStatusCode>>,
      <<"rules", "category", "Category", businessRuleCategory>>,
      <<"rules", "type", "Type", businessRuleType>> }

\* codes no lookup table lists
UnlistedCodes == {-1, 14, 99, 104}

\* the values a property is edited to: removed, null, an empty or flipped value,
\* a nested property removed or null, and for a coded property every listed
\* code, some unlisted codes and two non-numeric values
Variants(cat, f, v) ==
    {Undefined, Null}
    \cup (CASE v[1] = "string" -> {Str("")}
            [] v[1] = "boolean" -> {Bool(~v[2])}
            [] v[1] = "number" -> {Num(0)}
            [] v[1] = "object" ->
                 {Obj([k \in DOMAIN v[2] |-> IF k = j THEN x ELSE v[2][k]]) :
                    j \in DOMAIN v[2], x \in {Undefined, Null}}
            [] OTHER -> {})
    \cup (IF cat = "attributes" /\ f = "Description"
          THEN {Obj([LocalizedLabels |-> Arr(<< >>)]),
                Obj([LocalizedLabels |-> Arr(<<Null>>)]),
                Obj([LocalizedLabels |-> Arr(<<Obj([Label |-> Null])>>)])}
          ELSE {})
    \cup UNION {{Num(c) : c \in (DOMAIN t[4]) \cup UnlistedCodes} \cup {Bool(TRUE), Str("n/a")} :
                  t \in {u \in CodedFields : u[1] = cat /\ u[2] = f}}

MapInit ==
    /\ mcat \in Categories
    /\ raw = SampleRecord(mcat)
    /\ row = NoRow
    /\ edits = 0
    /\ server = [c \in {} |-> << >>]
    /\ fetcher = [category |-> "none", entityName |-> ""]
    /\ coll = 1
    /\ nextLink = << >>
    /\ results = << >>
    /\ parts = << >>
    /\ inflight = << >>
    /\ requests = << >>
    /\ faults = << >>
    /\ fetched = [status |-> "idle", value |-> << >>, error |-> ""]
    /\ entry = <<"none", "none">>
    /\ pc = "idle"
    /\ workbook = << >>
    /\ outputsDir = FALSE
    /\ files = {}
    /\ notices = << >>
    /\ settled = [status |-> "idle", value |-> << >>, error |-> ""]
    /\ history = << >>
    /\ transformedRelationships = << >>
    /\ typeIx = 0
    /\ rendering = [status |-> "idle", value |-> << >>, error |-> ""]
    /\ renderer = [state |-> "none", output |-> << >>, input |-> << >>, error |-> "none"]
    /\ diagramFiles = {}
    /\ overlap = << >>
    /\ env = << >>
    /\ tokenPost = "none"
    /\ accessToken = <<"undefined", 0>>
    /\ position = 0
    /\ exit = "running"

\* one property of the raw record is changed before the call
EditField(f, v) ==
    /\ edits < MaxEdits
    /\ v # raw[f]
    /\ raw' = [raw EXCEPT ![f] = v]
    /\ row' = NoRow
    /\ edits' = edits + 1
    /\ UNCHANGED <<mcat, fetchVars, bookVars, diagVars, runVars>>

\* rows = raws.map(transformX)
ApplyMapper ==
    /\ row = NoRow
    /\ row' = Mapper(mcat, raw)
    /\ UNCHANGED <<mcat, raw, edits, fetchVars, bookVars, diagVars, runVars>>

MapNext ==
    \/ \E f \in DOMAIN raw : \E v \in Variants(mcat, f, SampleRecord(mcat)[f]) : EditField(f, v)
    \/ ApplyMapper

SpecMap == MapInit /\ [][MapNext]_vars

(***************************************************************************)
(* Claims about the mappers (SpecMap).                                     *)
(***************************************************************************)
\* a complete record, a record with every property absent, one with every property null
ReferenceRecords(cat) ==
    {SampleRecord(cat),
     [f \in DOMAIN SampleRecord(cat) |-> Undefined],
     [f \in DOMAIN SampleRecord(cat) |-> Null]}

\* C4: the row a mapper returns for any raw record has the same keys, in the
\* same order, as the row it returns for a complete record, for a record with
\* no property and for a record whose properties are all null; hence any two
\* rows of one mapper agree on key set and key order.
Thm_C4_SameKeys ==
    row # NoRow =>
        \A r2 \in ReferenceRecords(mcat) : ObjectKeys(Mapper(mcat, r2)) = ObjectKeys(row)

\* C4 witness: a mapped row of a record with one property absent and another null
Wit_C4_SparseRecordMapped ==
    /\ row # NoRow
    /\ \E f \in DOMAIN raw : \E g \in DOMAIN raw : raw[f] = Undefined /\ raw[g] = Null

\* C5: in every mapped row of every mapper, every column holds a value that
\* is neither undefined nor null.
Claim_C5_EveryColumnDefined ==
    row # NoRow => \A i \in DOMAIN row : ~IsNullish(row[i][2])

\* C6 default labels: "Unknown" for the form columns, "" for view and rule columns
DefaultLabel(cat) == IF cat = "forms" THEN "Unknown" ELSE ""

\* C6: every coded column of a form, view or business-rule row holds the
\* table label of the record's code when the table lists the code (code 0
\* included), and the default label when the code is missing, null or unlisted.
Thm_C6_CodedColumns ==
    row # NoRow =>
        \A t \in {u \in CodedFields : u[1] = mcat} :
            RowGet(row, t[3]) =
                IF raw[t[2]][1] = "number" /\ raw[t[2]][2] \in DOMAIN t[4]
                THEN Str(t[4][raw[t[2]][2]])
                ELSE Str(DefaultLabel(mcat))

\* C6 witness: a form of type 0 with no activation state has been mapped
Wit_C6_CodeZeroAndMissing ==
    /\ mcat = "forms"
    /\ row # NoRow
    /\ raw["type"] = Num(0)
    /\ raw["formactivationstate"] = Undefined
    /\ RowGet(row, "Form Type") = Str("Dashboard")
    /\ RowGet(row, "Activation State") = Str("Unknown")


(***************************************************************************)
(* The metadata API.  A URL names a collection of one entity, the $filter *)
(* conditions of the query and, for a continuation link, the page it      *)
(* leads to.  The API holds, for every collection, a chain of pages; each *)
(* page is a response body {value, "@odata.nextLink"}.                    *)
(***************************************************************************)
Url(c, e, f, k) == [collection |-> c, entity |-> e, filter |-> f, page |-> k]

\* "@odata.nextLink" absent from the body
NoLink == Url("undefined", "", {}, 0)

\* "@odata.nextLink": ""
EmptyLink == Url("", "", {}, 0)

\* nextLink = null
NullLink == Url("null", "", {}, 0)

\* no request is being awaited
NoUrl == Url("none", "", {}, 0)

\* while (nextLink), if (data["@odata.nextLink"])
LinkTruthy(l) == l.collection \notin {"undefined", "", "null", "none"}

AllCollections ==
    {"Attributes", "OneToManyRelationships", "ManyToOneRelationships",
     "ManyToManyRelationships", "systemforms", "savedqueries", "workflows"}

\* the collections a category fetcher reads, in the order it reads them
Collections(cat) ==
    CASE cat = "attributes" -> <<"Attributes">>
      [] cat = "relationships" -> <<"OneToManyRelationships", "ManyToOneRelationships", "ManyToManyRelationships">>
      [] cat = "forms" -> <<"systemforms">>
      [] cat = "views" -> <<"savedqueries">>
      [] cat = "rules" -> <<"workflows">>

\* the $filter of the first request of a category fetcher
Filter(cat) ==
    CASE cat = "forms" -> {"objecttypecode eq entityName"}
      [] cat = "views" -> {"returnedtypecode eq entityName"}
      [] cat = "rules" -> {"primaryentity eq entityName"}
      [] OTHER -> {}

\* the URL a category fetcher builds for its i-th collection
FirstUrl(cat, e, i) == Url(Collections(cat)[i], e, Filter(cat), 1)

\* the records a $filter lets through: the API holds the records of the
\* requested entity, and a request that asks for category 2 gets no other
Matches(r, filter) == "category eq 2" \in filter => r["category"] = Num(2)

\* the response body the API holds for a URL, its records filtered as the
\* request asks; its continuation link names the entity of the request
PageAt(url) ==
    [server[url.collection][url.page] EXCEPT
        !.value = IF @[1] = "array" THEN Arr(SelectSeq(@[2], LAMBDA r : Matches(r, url.filter))) ELSE @,
        !.next = IF LinkTruthy(@) THEN [@ EXCEPT !.entity = url.entity] ELSE @]

HasPage(url) == url.collection \in DOMAIN server /\ url.page \in DOMAIN server[url.collection]

\* data.value || []
Values(data) == IF Truthy(data.value) THEN data.value[2] ELSE << >>

\* an accumulation that drops the records it already holds
AccumulateDistinct(res, data) ==
    res \o SelectSeq(Values(data), LAMBDA r : \A i \in DOMAIN res : res[i] # r)

\* results = results.concat(values)   /   results.push(...values)
Accumulate(res, data) == res \o Values(data)

\* a loop that never follows a continuation link
ContinueStop(data) == NullLink

\* the value of nextLink after a page: its continuation link, or null
Continue(data) == IF LinkTruthy(data.next) THEN data.next ELSE NullLink

(***************************************************************************)
(* A category fetcher call.                                                *)
(***************************************************************************)
NoFetcher == [category |-> "none", entityName |-> ""]

Idle == [status |-> "idle", value |-> << >>, error |-> ""]

Pending == [status |-> "pending", value |-> << >>, error |-> ""]

Resolved(v) == [status |-> "resolved", value |-> v, error |-> ""]

Rejected(e) == [status |-> "rejected", value |-> << >>, error |-> e]

\* the failures a GET can end with: the transport fails, or the API answers
\* with a non-success status (axios rejects both)
RequestErrors == {"ECONNRESET", "Request failed with status code 500"}

\* the fetchers that follow continuation links
Paging == {"attributes", "relationships", "forms", "views"}

\* fetchEntityX(entityName, accessToken, baseUrl) is called
BeginFetch(cat, e) ==
    /\ fetcher' = [category |-> cat, entityName |-> e]
    /\ coll' = 1
    /\ nextLink' = FirstUrl(cat, e, 1)
    /\ results' = << >>
    /\ parts' = << >>
    /\ fetched' = Pending
    /\ UNCHANGED <<server, inflight, requests, faults>>

\* a GET: the URL, and the Authorization header `Bearer ${accessToken}`
Request(url, token) ==
    [collection |-> url.collection, entity |-> url.entity, filter |-> url.filter, page |-> url.page,
     authorization |-> <<"Bearer ", token>>]

\* the URL of a GET
UrlOf(r) == Url(r.collection, r.entity, r.filter, r.page)

\* await axios.get(nextLink, {headers}): the request is sent
SendGet ==
    /\ fetched.status = "pending"
    /\ inflight = NoUrl
    /\ LinkTruthy(nextLink)
    /\ inflight' = Request(nextLink, accessToken)
    /\ requests' = Append(requests, Request(nextLink, accessToken))
    /\ UNCHANGED <<server, fetcher, coll, nextLink, results, parts, faults, fetched, mapVars, bookVars, diagVars, runVars>>

\* the body of the paging loop after the await: collect the page, follow the link
PageResponse ==
    /\ fetcher.category \in Paging
    /\ inflight # NoUrl
    /\ HasPage(inflight)
    /\ results' = Accumulate(results, PageAt(inflight))
    /\ nextLink' = Continue(PageAt(inflight))
    /\ inflight' = NoUrl
    /\ UNCHANGED <<server, fetcher, coll, parts, requests, faults, fetched, mapVars, bookVars, diagVars, runVars>>

\* the paging loop ends: fetchEntityAttributes, fetchEntityForms and
\* fetchEntityViews return the results of their one collection
PageReturn ==
    /\ fetcher.category \in Paging \ {"relationships"}
    /\ fetched.status = "pending"
    /\ inflight = NoUrl
    /\ ~LinkTruthy(nextLink)
    /\ fetched' = Resolved(results)
    /\ UNCHANGED <<server, fetcher, coll, nextLink, results, parts, inflight, requests, faults, mapVars, bookVars, diagVars, runVars>>

\* a spread that starts with the many-to-many results
SpreadReversed(ps) == ps[3] \o ps[2] \o ps[1]

\* [...oneToMany, ...manyToOne, ...manyToMany]
Spread(ps) == ps[1] \o ps[2] \o ps[3]

\* fetchAllPages returns to fetchEntityRelationships, which fetches the next
\* collection or returns the three results spread into one array
RelationshipsReturn ==
    /\ fetcher.category = "relationships"
    /\ fetched.status = "pending"
    /\ inflight = NoUrl
    /\ ~LinkTruthy(nextLink)
    /\ parts' = Append(parts, results)
    /\ IF coll < Len(Collections("relationships"))
       THEN /\ coll' = coll + 1
            /\ nextLink' = FirstUrl("relationships", fetcher.entityName, coll + 1)
            /\ results' = << >>
            /\ UNCHANGED fetched
       ELSE /\ fetched' = Resolved(Spread(parts'))
            /\ UNCHANGED <<coll, nextLink, results>>
    /\ UNCHANGED <<server, fetcher, inflight, requests, faults, mapVars, bookVars, diagVars, runVars>>

\* what fetchEntityBusinessRules makes of the one response it awaits
RulesResult(data) ==
    IF data.status # 200
    THEN Rejected("Failed to fetch business rules")
    ELSE IF ~Truthy(data.value)
         THEN Resolved(<< >>)
         ELSE Resolved([i \in DOMAIN data.value[2] |-> toBusinessRule(data.value[2][i])])

\* fetchEntityBusinessRules after its await: one response, no link followed
RulesResponse ==
    /\ fetcher.category = "rules"
    /\ inflight # NoUrl
    /\ HasPage(inflight)
    /\ fetched' = RulesResult(PageAt(inflight))
    /\ nextLink' = NullLink
    /\ inflight' = NoUrl
    /\ UNCHANGED <<server, fetcher, coll, results, parts, requests, faults, mapVars, bookVars, diagVars, runVars>>

\* a failure handler that returns what was collected so far
RequestFailPartial(e) ==
    /\ inflight # NoUrl
    /\ faults' = Append(faults, <<inflight, e>>)
    /\ fetched' = Resolved(results)
    /\ inflight' = NoUrl
    /\ UNCHANGED <<server, fetcher, coll, nextLink, results, parts, requests, mapVars, bookVars, diagVars, runVars>>

\* the awaited GET rejects; no fetcher handles the error (fetchEntityAttributes,
\* fetchEntityForms and fetchEntityViews log it and throw it again)
RequestFail(e) ==
    /\ inflight # NoUrl
    /\ faults' = Append(faults, <<inflight, e>>)
    /\ fetched' = Rejected(e)
    /\ inflight' = NoUrl
    /\ UNCHANGED <<server, fetcher, coll, nextLink, results, parts, requests, mapVars, bookVars, diagVars, runVars>>

\* the steps of a fetcher call
FetchStep ==
    \/ SendGet
    \/ PageResponse
    \/ PageReturn
    \/ RelationshipsReturn
    \/ RulesResponse
    \/ \E e \in RequestErrors : RequestFail(e)

(***************************************************************************)
(* SpecFetch: one call of a category fetcher for one entity, against      *)
(* every API content within the bounds.                                    *)
(***************************************************************************)
\* pages per collection
MaxPages == 3

\* pages of the three relationship collections together
MaxRelPages == 4

\* the category whose fetcher reads a collection
CategoryOf(c) ==
    CASE c = "Attributes" -> "attributes"
      [] c = "systemforms" -> "forms"
      [] c = "savedqueries" -> "views"
      [] c = "workflows" -> "rules"
      [] OTHER -> "relationships"

\* the property that names a record of a category
NameField(cat) == IF cat \in {"attributes", "relationships"} THEN "SchemaName" ELSE "name"

\* two records of a collection that differ in their name
FixtureRecord(c, n) ==
    LET cat == CategoryOf(c)
        named == [SampleRecord(cat) EXCEPT ![NameField(cat)] = IF n = 1 THEN @ ELSE Str("second")]
    IN IF cat = "relationships"
       THEN [named EXCEPT !["RelationshipType"] =
                CASE c = "OneToManyRelationships" -> Str("OneToManyRelationship")
                  [] c = "ManyToOneRelationships" -> Str("ManyToOneRelationship")
                  [] OTHER -> Str("ManyToManyRelationship")]
       ELSE IF cat = "rules" THEN ("iscustomizable/Value" :> Bool(TRUE)) @@ named
       ELSE named

\* the value arrays a page can carry: absent, empty, one record, two records
\* (the pages of the three relationship collections: absent, one, two)
PageValues(c) ==
    {Undefined, Arr(<<FixtureRecord(c, 1)>>), Arr(<<FixtureRecord(c, 1), FixtureRecord(c, 2)>>)}
    \cup (IF CategoryOf(c) = "relationships" THEN {} ELSE {Arr(<< >>)})

\* the links the last page of a chain can carry: none, or an empty one
LastLinks(c) == IF CategoryOf(c) = "relationships" THEN {NoLink} ELSE {NoLink, EmptyLink}

\* the chains of n pages that start at URL first: every page but the last
\* links to the next one, the last carries no link or an empty one
ChainsOf(first, n) ==
    {[k \in 1..n |-> [status |-> 200,
                      value |-> vals[k],
                      next |-> IF k < n THEN [first EXCEPT !.page = k + 1] ELSE last]] :
        vals \in [1..n -> PageValues(first.collection)], last \in LastLinks(first.collection)}

\* the API content made of the given chains for the collections of cat
ServerOf(cat, chains) ==
    [c \in AllCollections |->
        IF \E i \in DOMAIN Collections(cat) : Collections(cat)[i] = c
        THEN chains[CHOOSE i \in DOMAIN Collections(cat) : Collections(cat)[i] = c]
        ELSE << >>]

\* the chain lengths of the three relationship collections
RelLengths == {n \in [1..3 -> 1..MaxRelPages] : n[1] + n[2] + n[3] <= MaxRelPages}

Servers(cat, e) ==
    IF cat = "relationships"
    THEN UNION {{ServerOf(cat, <<x, y, z>>) :
                    x \in ChainsOf(FirstUrl(cat, e, 1), n[1]),
                    y \in ChainsOf(FirstUrl(cat, e, 2), n[2]),
                    z \in ChainsOf(FirstUrl(cat, e, 3), n[3])} : n \in RelLengths}
    ELSE UNION {{ServerOf(cat, <<x>>) : x \in ChainsOf(FirstUrl(cat, e, 1), n)} : n \in 1..MaxPages}

FetchInit ==
    /\ mcat = "none"
    /\ raw = << >>
    /\ row = NoRow
    /\ edits = 0
    /\ entry = <<"none", "none">>
    /\ pc = "idle"
    /\ workbook = << >>
    /\ outputsDir = FALSE
    /\ files = {}
    /\ notices = << >>
    /\ settled = Idle
    /\ history = << >>
    /\ fetcher \in {[category |-> cat, entityName |-> "account"] : cat \in Categories}
    /\ server \in Servers(fetcher.category, fetcher.entityName)
    /\ coll = 1
    /\ nextLink = FirstUrl(fetcher.category, fetcher.entityName, 1)
    /\ results = << >>
    /\ parts = << >>
    /\ inflight = NoUrl
    /\ requests = << >>
    /\ faults = << >>
    /\ fetched = Pending
    /\ transformedRelationships = << >>
    /\ typeIx = 0
    /\ rendering = [status |-> "idle", value |-> << >>, error |-> ""]
    /\ renderer = [state |-> "none", output |-> << >>, input |-> << >>, error |-> "none"]
    /\ diagramFiles = {}
    /\ overlap = << >>
    /\ env = << >>
    /\ tokenPost = "none"
    /\ accessToken = Str("token")
    /\ position = 0
    /\ exit = "running"

FetchNext == FetchStep

SpecFetch == FetchInit /\ [][FetchNext]_vars

\* a fetcher call whose awaited requests are answered or fail, and whose
\* continuations run: the event loop leaves no enabled step waiting for ever
SpecFetchLive == FetchInit /\ [][FetchNext]_vars /\ WF_vars(FetchNext)

(***************************************************************************)
(* Claims about the fetchers (SpecFetch).                                  *)
(***************************************************************************)
RECURSIVE ChainRecords(_)
\* the value arrays of a chain of pages, one after the other
ChainRecords(chain) ==
    IF chain = << >> THEN << >>
    ELSE (IF Head(chain).value[1] = "array" THEN Head(chain).value[2] ELSE << >>)
         \o ChainRecords(Tail(chain))

RECURSIVE SumSizes(_)
\* s1 + ... + sN, a page without a value array counting 0
SumSizes(chain) ==
    IF chain = << >> THEN 0
    ELSE (IF Head(chain).value[1] = "array" THEN Len(Head(chain).value[2]) ELSE 0)
         + SumSizes(Tail(chain))

\* the chain of pages of the i-th collection of the fetcher in progress
ChainOf(i) == server[Collections(fetcher.category)[i]]

\* C1: a finished paging loop returns the value arrays of all N pages of its
\* chain, in page order, nothing dropped and nothing added: s1 + ... + sN
\* records (fetchEntityAttributes, fetchAllPages of forms and views, and each
\* of the three fetchAllPages calls of fetchEntityRelationships).
Thm_C1_AllPagesInOrder ==
    /\ (fetcher.category \in Paging \ {"relationships"} /\ fetched.status = "resolved") =>
           /\ fetched.value = ChainRecords(ChainOf(1))
           /\ Len(fetched.value) = SumSizes(ChainOf(1))
    /\ fetcher.category = "relationships" =>
           \A i \in DOMAIN parts :
               /\ parts[i] = ChainRecords(ChainOf(i))
               /\ Len(parts[i]) = SumSizes(ChainOf(i))

\* C1 witness: a fetch over several pages, one without a value array, has
\* returned a result that holds the same record twice
Wit_C1_ManyPagesDuplicates ==
    /\ fetcher.category \in Paging \ {"relationships"}
    /\ fetched.status = "resolved"
    /\ Len(ChainOf(1)) >= 3
    /\ \E k \in DOMAIN ChainOf(1) : ChainOf(1)[k].value = Undefined
    /\ \E i \in DOMAIN fetched.value : \E j \in DOMAIN fetched.value :
           i < j /\ fetched.value[i] = fetched.value[j]

\* C2: when a GET of a paginated fetch fails, the fetch rejects with that
\* very failure and without a value, nothing is awaited any more, the failed
\* request is the last one issued, and from then on no request is issued.
Thm_C2_FailureAborts ==
    /\ [](fetcher.category \in Paging =>
            /\ faults # << >> => fetched.status = "rejected"
            /\ fetched.status = "rejected" =>
                   /\ Len(faults) = 1
                   /\ fetched.error = faults[1][2]
                   /\ fetched.value = << >>
                   /\ inflight = NoUrl
                   /\ requests[Len(requests)] = faults[1][1])
    /\ [][(fetcher.category \in Paging /\ fetched.status = "rejected") =>
            (requests' = requests /\ fetched' = fetched)]_vars

\* C2 witness: a fetch was rejected at its second or a later page, after
\* records of earlier pages had been collected
Wit_C2_RejectedAfterPages ==
    /\ fetcher.category \in Paging
    /\ fetched.status = "rejected"
    /\ Len(requests) >= 2
    /\ results # << >>

\* every record the API holds for a category, as the fetcher of the
\* category hands records on
CategoryRecords(cat) ==
    LET all == IF cat = "relationships"
               THEN ChainRecords(ChainOf(1)) \o ChainRecords(ChainOf(2)) \o ChainRecords(ChainOf(3))
               ELSE ChainRecords(ChainOf(1))
    IN IF cat = "rules" THEN [i \in DOMAIN all |-> toBusinessRule(all[i])] ELSE all

\* C3: the result of each of the five category fetchers holds the records
\* of every page of the category, not only those of the first page.
Claim_C3_EveryPageFetched ==
    fetched.status = "resolved" => fetched.value = CategoryRecords(fetcher.category)



(***************************************************************************)
(* The workbook export: processEntityAll in its three revisions and        *)
(* createWorkbookForEntity in its two.                                     *)
(***************************************************************************)
EntityName == "account"

\* entities of the list the driver walks through
MaxEntities == 2

\* const listOfEntites: string[] = [...]: its first MaxEntities entries
listOfEntites ==
    SubSeq(<<"account", "bam_batch", "bam_bpf_556396196ab5470b836c103f3dfd232a">>, 1, MaxEntities)

\* the entityName argument of the export function that is running
entityName == IF position > 0 THEN listOfEntites[position] ELSE EntityName

ProcessEntityAllSources == {"src/src/processEntity.ts", "src/unnamed/part_001", "src/unnamed/part_002"}

CreateWorkbookSources == {"src/src/excel.ts", "src/unnamed/part_000"}

ProcessEntityColumnsSources == {"src/src/entityColumns.ts", "src/unnamed/part_003"}

\* `./outputs/${entityName}${suffix}`
OutputPath(e, suffix) == <<"./outputs", e, suffix>>

\* the path a revision writes the workbook to
WrittenPath(en) ==
    OutputPath(entityName,
               IF en.source \in {"src/unnamed/part_001", "src/src/excel.ts", "src/unnamed/part_003"}
               THEN "1.xlsx" ELSE ".xlsx")

\* the path a revision names in the notice that follows the write
ReportedPath(en) ==
    IF en.source = "src/unnamed/part_001" THEN OutputPath(entityName, ".xlsx") ELSE WrittenPath(en)

\* worksheet.addRow(record) on a sheet with keyed columns: one cell per
\* column, read from the record by the column's key
AddRow(columns, record) == [j \in DOMAIN columns |-> RowGet(record, columns[j])]

\* an addWorksheet that creates no sheet for an empty row sequence
AddWorksheetSkipEmpty(wb, name, rows) ==
    IF Len(rows) > 0
    THEN Append(wb, [name |-> name,
                     columns |-> ObjectKeys(rows[1]),
                     rows |-> [i \in DOMAIN rows |-> AddRow(ObjectKeys(rows[1]), rows[i])]])
    ELSE wb

\* workbook.addWorksheet(name); if (rows.length > 0) { worksheet.columns =
\* Object.keys(rows[0]).map(...); for (const row of rows) worksheet.addRow(row) }
AddWorksheet(wb, name, rows) ==
    Append(wb, [name |-> name,
                columns |-> IF Len(rows) > 0 THEN ObjectKeys(rows[1]) ELSE << >>,
                rows |-> IF Len(rows) > 0
                         THEN [i \in DOMAIN rows |-> AddRow(ObjectKeys(rows[1]), rows[i])]
                         ELSE << >>])

RECURSIVE AddSheets(_, _)
\* for (const { sheetName, records } of sheetsData) { ... }
AddSheets(wb, data) ==
    IF data = << >> THEN wb
    ELSE AddSheets(AddWorksheet(wb, Head(data).sheetName, Head(data).records), Tail(data))

\* the record of the sheets added, kept beside the workbook
Added(by, name, rows) == [by |-> by, name |-> name, rows |-> rows]

SheetName(cat) ==
    CASE cat = "attributes" -> "Columns"
      [] cat = "relationships" -> "Relationships"
      [] cat = "forms" -> "Forms"
      [] cat = "views" -> "Views"
      [] cat = "rules" -> "Business Rules"

\* the statement processEntityAll reaches after the sheet of a category
NextStep(cat) ==
    CASE cat = "attributes" -> "relationships"
      [] cat = "relationships" -> "forms"
      [] cat = "forms" -> "views"
      [] cat = "views" -> "rules"
      [] cat = "rules" -> "save"

\* workbook.xlsx.writeFile(path): the outcomes of the write
WriteErrors(dirExists) == IF dirExists THEN {"none", "EACCES"} ELSE {"ENOENT"}

\* the file system after a successful write: an existing file is replaced
WriteFile(fs, path, wb) == {f \in fs : f.path # path} \cup {[path |-> path, sheets |-> wb]}

\* const raw = await fetchEntityX(entityName, accessToken, baseUrl)
SheetCall(cat) ==
    /\ entry.function = "processEntityAll"
    /\ pc = cat
    /\ fetched.status = "idle"
    /\ BeginFetch(cat, entityName)
    /\ UNCHANGED <<mapVars, bookVars, diagVars, runVars>>

\* the rest of an add*Sheet function: log the count, map, add the sheet
SheetReturn(cat, by) ==
    /\ entry.function = "processEntityAll"
    /\ pc = cat
    /\ fetched.status = "resolved"
    /\ notices' = Append(notices, [kind |-> "Fetched", count |-> Len(fetched.value), what |-> cat])
    /\ workbook' = AddWorksheet(workbook, SheetName(cat), MapRows(cat, fetched.value))
    /\ history' = [history EXCEPT !.added = Append(@, Added(by, SheetName(cat), MapRows(cat, fetched.value))),
                                  !.fetches = Append(@, [category |-> cat, value |-> fetched.value])]
    /\ pc' = NextStep(cat)
    /\ fetcher' = NoFetcher
    /\ fetched' = Idle
    /\ UNCHANGED <<server, coll, nextLink, results, parts, inflight, requests, faults,
                   entry, outputsDir, files, settled, mapVars, diagVars, runVars>>

\* an add*Sheet step that swallows the rejection and leaves its sheet out
SheetThrowSkip(cat) ==
    /\ entry.function = "processEntityAll"
    /\ pc = cat
    /\ fetched.status = "rejected"
    /\ pc' = NextStep(cat)
    /\ fetcher' = NoFetcher
    /\ fetched' = Idle
    /\ UNCHANGED <<server, coll, nextLink, results, parts, inflight, requests, faults,
                   entry, workbook, outputsDir, files, notices, settled, history,
                   mapVars, diagVars, runVars>>

\* the fetcher rejected: the await throws out of the add*Sheet function and
\* out of processEntityAll, which has no try/catch
SheetThrow(cat) ==
    /\ entry.function = "processEntityAll"
    /\ pc = cat
    /\ fetched.status = "rejected"
    /\ settled' = Rejected(fetched.error)
    /\ pc' = "done"
    /\ UNCHANGED <<fetchVars, entry, workbook, outputsDir, files, notices, history, mapVars, diagVars, runVars>>

SheetStep(cat, by) == SheetCall(cat) \/ SheetReturn(cat, by) \/ SheetThrow(cat)

\* the Columns step written out in processEntityAll itself
ColumnsInline ==
    /\ entry.source = "src/unnamed/part_001"
    /\ SheetStep("attributes", "processEntityAll")

\* addColumnsSheet(workbook, entityName, accessToken, orgUrl)
addColumnsSheet ==
    /\ entry.source # "src/unnamed/part_001"
    /\ SheetStep("attributes", "addColumnsSheet")

addRelationshipsSheet == SheetStep("relationships", "addRelationshipsSheet")

addFormsSheet == SheetStep("forms", "addFormsSheet")

addViewsSheet == SheetStep("views", "addViewsSheet")

addBusinessRulesSheet == SheetStep("rules", "addBusinessRulesSheet")

\* a save step that goes on to the diagram phase with the write left out
SaveWorkbookUnwritten ==
    /\ entry.function = "processEntityAll"
    /\ pc = "save"
    /\ history' = [history EXCEPT !.saveReached = TRUE]
    /\ IF entry.source = "src/src/processEntity.ts"
       THEN pc' = "diagrams" /\ UNCHANGED settled
       ELSE pc' = "done" /\ settled' = Resolved(<< >>)
    /\ UNCHANGED <<fetchVars, entry, workbook, outputsDir, files, notices, mapVars, diagVars, runVars>>

\* await workbook.xlsx.writeFile(path); console.log(`Wrote file: ...`)
\* (no directory is created; the later revision goes on to its diagrams)
SaveWorkbook ==
    /\ entry.function = "processEntityAll"
    /\ pc = "save"
    /\ \E err \in WriteErrors(outputsDir) :
        /\ history' = [history EXCEPT !.saveReached = TRUE, !.writeError = err]
        /\ IF err = "none"
           THEN /\ files' = WriteFile(files, WrittenPath(entry), workbook)
                /\ notices' = Append(notices, [kind |-> "Wrote file", path |-> ReportedPath(entry)])
                /\ IF entry.source = "src/src/processEntity.ts"
                   THEN pc' = "diagrams" /\ UNCHANGED settled
                   ELSE pc' = "done" /\ settled' = Resolved(<< >>)
           ELSE /\ settled' = Rejected(err)
                /\ pc' = "done"
                /\ UNCHANGED <<files, notices>>
    /\ UNCHANGED <<fetchVars, entry, workbook, outputsDir, mapVars, diagVars, runVars>>

\* processEntityColumns: const rawAttributes = await fetchEntityAttributes(...)
ColumnsCall ==
    /\ entry.function = "processEntityColumns"
    /\ pc = "attributes"
    /\ fetched.status = "idle"
    /\ BeginFetch("attributes", entityName)
    /\ UNCHANGED <<mapVars, bookVars, diagVars, runVars>>

\* processEntityColumns after the fetch: log, map, and writeAttributesToExcel
\* up to its await (the folder, the workbook, the Columns sheet)
ColumnsReturn ==
    /\ entry.function = "processEntityColumns"
    /\ pc = "attributes"
    /\ fetched.status = "resolved"
    /\ notices' = Append(notices, [kind |-> "Fetched", count |-> Len(fetched.value), what |-> "attributes"])
    /\ outputsDir' = TRUE
    /\ workbook' = AddWorksheet(<< >>, "Columns", MapRows("attributes", fetched.value))
    /\ history' = [history EXCEPT
                      !.added = Append(@, Added("writeAttributesToExcel", "Columns",
                                                MapRows("attributes", fetched.value))),
                      !.fetches = Append(@, [category |-> "attributes", value |-> fetched.value])]
    /\ pc' = "write"
    /\ fetcher' = NoFetcher
    /\ fetched' = Idle
    /\ UNCHANGED <<server, coll, nextLink, results, parts, inflight, requests, faults,
                   entry, files, settled, mapVars, diagVars, runVars>>

\* the rejection of fetchEntityAttributes leaves processEntityColumns
ColumnsThrow ==
    /\ entry.function = "processEntityColumns"
    /\ pc = "attributes"
    /\ fetched.status = "rejected"
    /\ settled' = Rejected(fetched.error)
    /\ pc' = "done"
    /\ UNCHANGED <<fetchVars, entry, workbook, outputsDir, files, notices, history, mapVars, diagVars, runVars>>

processEntityColumns == ColumnsCall \/ ColumnsReturn \/ ColumnsThrow

\* await workbook.xlsx.writeFile(outputPath); console.log(`File written: ...`)
writeAttributesToExcel ==
    /\ entry.function = "processEntityColumns"
    /\ pc = "write"
    /\ \E err \in WriteErrors(outputsDir) :
        /\ history' = [history EXCEPT !.saveReached = TRUE, !.writeError = err]
        /\ IF err = "none"
           THEN /\ files' = WriteFile(files, WrittenPath(entry), workbook)
                /\ notices' = Append(notices, [kind |-> "File written", path |-> WrittenPath(entry)])
                /\ settled' = Resolved(<< >>)
           ELSE /\ settled' = Rejected(err)
                /\ UNCHANGED <<files, notices>>
    /\ pc' = "done"
    /\ UNCHANGED <<fetchVars, entry, workbook, outputsDir, mapVars, diagVars, runVars>>

\* createWorkbookForEntity up to its await: the folder, the workbook, the sheets
createWorkbookForEntity ==
    /\ entry.function = "createWorkbookForEntity"
    /\ pc = "start"
    /\ outputsDir' = TRUE
    /\ workbook' = AddSheets(<< >>, entry.sheetsData)
    /\ history' = [history EXCEPT !.added =
                      [i \in DOMAIN entry.sheetsData |->
                          Added("createWorkbookForEntity", entry.sheetsData[i].sheetName,
                                entry.sheetsData[i].records)]]
    /\ pc' = "write"
    /\ UNCHANGED <<fetchVars, entry, files, notices, settled, mapVars, diagVars, runVars>>

\* try { await workbook.xlsx.writeFile(outputPath); console.log(...) }
\* catch (err) { console.error("Error writing workbook:", err) }
WriteWorkbook ==
    /\ entry.function = "createWorkbookForEntity"
    /\ pc = "write"
    /\ \E err \in WriteErrors(outputsDir) :
        /\ history' = [history EXCEPT !.saveReached = TRUE, !.writeError = err]
        /\ IF err = "none"
           THEN /\ files' = WriteFile(files, WrittenPath(entry), workbook)
                /\ notices' = Append(notices, [kind |-> "Workbook created", path |-> WrittenPath(entry)])
           ELSE /\ notices' = Append(notices, [kind |-> "Error writing workbook", error |-> err])
                /\ UNCHANGED files
    /\ settled' = Resolved(<< >>)
    /\ pc' = "done"
    /\ UNCHANGED <<fetchVars, entry, workbook, outputsDir, mapVars, diagVars, runVars>>

(***************************************************************************)
(* The diagram phase of processEntityAll (src/src/processEntity.ts) and   *)
(* generateRelationshipDiagram.  A name is compared through its           *)
(* characters; a graph description is the sequence of its edge statements;*)
(* the rendered image is kept as the description it was rendered from.    *)
(***************************************************************************)
\* the characters of the names that occur in relationship records
Chars(s) ==
    CASE s = "" -> << >>
      [] s = "mssp" -> <<"m", "s", "s", "p">>
      [] s = "msdyn" -> <<"m", "s", "d", "y", "n">>
      [] s = "account" -> <<"a", "c", "c", "o", "u", "n", "t">>
      [] s = "contact" -> <<"c", "o", "n", "t", "a", "c", "t">>
      [] s = "account_contacts" -> <<"a", "c", "c", "o", "u", "n", "t", "_", "c", "o", "n", "t", "a", "c", "t", "s">>
      [] s = "second" -> <<"s", "e", "c", "o", "n", "d">>
      [] s = "third" -> <<"t", "h", "i", "r", "d">>
      [] s = "fourth" -> <<"f", "o", "u", "r", "t", "h">>
      [] s = "fifth" -> <<"f", "i", "f", "t", "h">>
      [] s = "new_custom" -> <<"n", "e", "w", "_", "c", "u", "s", "t", "o", "m">>
      [] s = "changed_rel" -> <<"c", "h", "a", "n", "g", "e", "d", "_", "r", "e", "l">>
      [] s = "new_MSSP_link" -> <<"n", "e", "w", "_", "M", "S", "S", "P", "_", "l", "i", "n", "k">>
      [] s = "Mssp_Order" -> <<"M", "s", "s", "p", "_", "O", "r", "d", "e", "r">>
      [] s = "order_item" -> <<"o", "r", "d", "e", "r", "_", "i", "t", "e", "m">>
      [] s = "msdyn_flow" -> <<"m", "s", "d", "y", "n", "_", "f", "l", "o", "w">>
      [] s = "plain_order" -> <<"p", "l", "a", "i", "n", "_", "o", "r", "d", "e", "r">>
      [] s = "accountleads" -> <<"a", "c", "c", "o", "u", "n", "t", "l", "e", "a", "d", "s">>

\* the lower-case form of one character
LowerChar(c) ==
    CASE c = "A" -> "a"
      [] c = "B" -> "b"
      [] c = "C" -> "c"
      [] c = "D" -> "d"
      [] c = "E" -> "e"
      [] c = "F" -> "f"
      [] c = "G" -> "g"
      [] c = "H" -> "h"
      [] c = "I" -> "i"
      [] c = "J" -> "j"
      [] c = "K" -> "k"
      [] c = "L" -> "l"
      [] c = "M" -> "m"
      [] c = "N" -> "n"
      [] c = "O" -> "o"
      [] c = "P" -> "p"
      [] c = "Q" -> "q"
      [] c = "R" -> "r"
      [] c = "S" -> "s"
      [] c = "T" -> "t"
      [] c = "U" -> "u"
      [] c = "V" -> "v"
      [] c = "W" -> "w"
      [] c = "X" -> "x"
      [] c = "Y" -> "y"
      [] c = "Z" -> "z"
      [] OTHER -> c

\* s.toLowerCase()
toLowerCase(cs) == [i \in DOMAIN cs |-> LowerChar(cs[i])]

\* s.includes(sub)
includes(cs, sub) == \E i \in 0..(Len(cs) - Len(sub)) : SubSeq(cs, i + 1, i + Len(sub)) = sub

\* s.startsWith(pre)
startsWith(cs, pre) == Len(cs) >= Len(pre) /\ SubSeq(cs, 1, Len(pre)) = pre

\* rel.HasChanged !== null || rel.IsCustomRelationship === true
hasCustomOrChanged(rel) ==
    RowGet(rel, "HasChanged") # Null \/ RowGet(rel, "IsCustomRelationship") = Bool(TRUE)

\* rel[name]?.toLowerCase().includes("mssp")
IncludesMssp(v) ==
    IF IsNullish(v) THEN Undefined ELSE Bool(includes(toLowerCase(Chars(v[2])), Chars("mssp")))

\* the || of the three name tests
msspCheck(rel) ==
    Or(Or(IncludesMssp(RowGet(rel, "Schema Name")), IncludesMssp(RowGet(rel, "Entity Ref."))),
       IncludesMssp(RowGet(rel, "Referencing Entity")))

\* return hasCustomOrChanged && !msspCheck
shouldIncludeRelationship(rel) == hasCustomOrChanged(rel) /\ ~Truthy(msspCheck(rel))

\* rel[name] && rel[name].toLowerCase().startsWith("msdyn")
StartsWithMsdyn(v) == Truthy(v) /\ startsWith(toLowerCase(Chars(v[2])), Chars("msdyn"))

includeRelationship(rel) ==
    IF StartsWithMsdyn(RowGet(rel, "Schema Name")) THEN FALSE
    ELSE IF StartsWithMsdyn(RowGet(rel, "Entity Ref.")) THEN FALSE
    ELSE IF StartsWithMsdyn(RowGet(rel, "Referencing Entity")) THEN FALSE
    ELSE RowGet(rel, "HasChanged") # Null \/ RowGet(rel, "IsCustomRelationship") = Bool(TRUE)

\* the label parts of an edge: the schema name, the type in parentheses and
\* the markers pushed after them
labelParts(rel) ==
    <<RowGet(rel, "Schema Name"), <<"(", RowGet(rel, "Type"), ")">> >>
    \o (IF RowGet(rel, "IsCustomRelationship") = Bool(TRUE) THEN <<"[Custom]">> ELSE << >>)
    \o (IF RowGet(rel, "HasChanged") # Null THEN <<"[Changed]">> ELSE << >>)

\* `  "${source}" -> "${target}" [label="${label}"];`
Edge(rel) ==
    [source |-> Or(RowGet(rel, "Referencing Entity"), Str("Unknown")),
     target |-> Or(RowGet(rel, "Entity Ref."), Str("Unknown")),
     label |-> labelParts(rel)]

\* the relationships generateDot draws
Drawn(relationships, filterOptions) ==
    IF filterOptions.excludeDefault THEN SelectSeq(relationships, includeRelationship) ELSE relationships

generateDot(relationships, filterOptions) ==
    [i \in DOMAIN Drawn(relationships, filterOptions) |-> Edge(Drawn(relationships, filterOptions)[i])]

\* the two counts generateDot logs
DotNotices(relationships, filterOptions) ==
    <<[kind |-> "Total relationships before filtering", count |-> Len(relationships)],
      [kind |-> "Total relationships after filtering", count |-> Len(Drawn(relationships, filterOptions))]>>

relationshipTypes == <<"OneToManyRelationship", "ManyToOneRelationship", "ManyToManyRelationship">>

\* a type filter that lets every relationship through
relationshipsOfAnyType(rels, type) == rels

\* transformedRelationships.filter((rel) => rel.Type === type)
relationshipsOfType(rels, type) == SelectSeq(rels, LAMBDA rel : RowGet(rel, "Type") = Str(type))

\* `${entityName}-${type}.png`
diagramFileName(e, type) == <<e, "-", type, ".png">>

tempDotPath == <<"temp_relationships.dot">>

\* the diagrams directory after a file is written: an existing file is replaced
PutFile(dir, name, content) == {f \in dir : f.name # name} \cup {[name |-> name, content |-> content]}

\* fs.unlinkSync(name)
Unlink(dir, name) == {f \in dir : f.name # name}

NoExec == [state |-> "none", output |-> << >>, input |-> << >>, error |-> "none"]

\* the outcomes of fs.writeFileSync(tempDotPath, ...)
TempWriteErrors == {"none", "EACCES"}

\* the errors exec hands to its callback: the renderer is not installed, or
\* it ends with a non-zero status
RenderErrors == {"Command failed: dot: not found", "Command failed: dot exited with 1"}

\* const rawRelationships = await fetchEntityRelationships(...)
RefetchCall ==
    /\ entry.function = "processEntityAll"
    /\ pc = "diagrams"
    /\ fetched.status = "idle"
    /\ BeginFetch("relationships", entityName)
    /\ UNCHANGED <<mapVars, bookVars, diagVars, runVars>>

\* the count is logged and the raw relationships are mapped; the loop starts
RefetchReturn ==
    /\ entry.function = "processEntityAll"
    /\ pc = "diagrams"
    /\ fetched.status = "resolved"
    /\ notices' = Append(notices, [kind |-> "Fetched raw relationships", count |-> Len(fetched.value),
                                   entity |-> entityName])
    /\ transformedRelationships' = MapRows("relationships", fetched.value)
    /\ typeIx' = 1
    /\ history' = [history EXCEPT !.refetched = fetched.value]
    /\ pc' = "loop"
    /\ fetcher' = NoFetcher
    /\ fetched' = Idle
    /\ UNCHANGED <<server, coll, nextLink, results, parts, inflight, requests, faults,
                   entry, workbook, outputsDir, files, settled,
                   rendering, renderer, diagramFiles, overlap, mapVars, runVars>>

\* the rejection of fetchEntityRelationships leaves processEntityAll
RefetchThrow ==
    /\ entry.function = "processEntityAll"
    /\ pc = "diagrams"
    /\ fetched.status = "rejected"
    /\ settled' = Rejected(fetched.error)
    /\ pc' = "done"
    /\ UNCHANGED <<fetchVars, entry, workbook, outputsDir, files, notices, history, mapVars, diagVars, runVars>>

\* the end of one pass of the loop over relationshipTypes
NextType ==
    IF typeIx < Len(relationshipTypes)
    THEN typeIx' = typeIx + 1 /\ pc' = "loop" /\ UNCHANGED settled
    ELSE pc' = "done" /\ settled' = Resolved(<< >>) /\ UNCHANGED typeIx

\* a pass of the loop that does not await generateRelationshipDiagram: the
\* next pass follows while dot is running
DiagramLoopNoAwait ==
    /\ entry.function = "processEntityAll"
    /\ pc = "loop"
    /\ LET type == relationshipTypes[typeIx]
           ofType == relationshipsOfType(transformedRelationships, type)
           filteredRelationships == SelectSeq(ofType, shouldIncludeRelationship)
           filterOptions == [excludeDefault |-> FALSE]
           counted == notices \o
                      <<[kind |-> "Processing relationship type", type |-> type, entity |-> entityName],
                        [kind |-> "Original count", count |-> Len(ofType)],
                        [kind |-> "Filtered count", count |-> Len(filteredRelationships)]>>
       IN /\ history' = [history EXCEPT !.loops = Append(@, [type |-> type, original |-> ofType,
                                                             filtered |-> filteredRelationships])]
          /\ IF Len(filteredRelationships) > 0
             THEN \E err \in TempWriteErrors :
                     /\ notices' = counted \o DotNotices(filteredRelationships, filterOptions)
                     /\ IF err = "none"
                        THEN /\ diagramFiles' = PutFile(diagramFiles, tempDotPath,
                                                        generateDot(filteredRelationships, filterOptions))
                             /\ renderer' = [state |-> "running",
                                             output |-> diagramFileName(entityName, type),
                                             input |-> tempDotPath,
                                             error |-> "none"]
                             /\ rendering' = Pending
                        ELSE /\ rendering' = Rejected(err)
                             /\ UNCHANGED <<diagramFiles, renderer>>
                     /\ NextType
             ELSE /\ notices' = Append(counted, [kind |-> "No relationships remain", type |-> type,
                                                 entity |-> entityName])
                  /\ NextType
                  /\ UNCHANGED <<rendering, renderer, diagramFiles>>
    /\ UNCHANGED <<fetchVars, entry, workbook, outputsDir, files, transformedRelationships, mapVars, runVars, overlap>>

\* one pass of the loop up to its await: the two filters, the three counts,
\* and either the executor of generateRelationshipDiagram (the description is
\* generated and written, dot is started) or the zero-count notice
DiagramLoop ==
    /\ entry.function = "processEntityAll"
    /\ pc = "loop"
    /\ LET type == relationshipTypes[typeIx]
           ofType == relationshipsOfType(transformedRelationships, type)
           filteredRelationships == SelectSeq(ofType, shouldIncludeRelationship)
           filterOptions == [excludeDefault |-> FALSE]
           counted == notices \o
                      <<[kind |-> "Processing relationship type", type |-> type, entity |-> entityName],
                        [kind |-> "Original count", count |-> Len(ofType)],
                        [kind |-> "Filtered count", count |-> Len(filteredRelationships)]>>
       IN /\ history' = [history EXCEPT !.loops = Append(@, [type |-> type, original |-> ofType,
                                                             filtered |-> filteredRelationships])]
          /\ IF Len(filteredRelationships) > 0
             THEN \E err \in TempWriteErrors :
                     /\ notices' = counted \o DotNotices(filteredRelationships, filterOptions)
                     /\ IF err = "none"
                        THEN /\ diagramFiles' = PutFile(diagramFiles, tempDotPath,
                                                        generateDot(filteredRelationships, filterOptions))
                             /\ renderer' = [state |-> "running",
                                             output |-> diagramFileName(entityName, type),
                                             input |-> tempDotPath,
                                             error |-> "none"]
                             /\ rendering' = Pending
                        ELSE /\ rendering' = Rejected(err)
                             /\ UNCHANGED <<diagramFiles, renderer>>
                     /\ pc' = "render"
                     /\ UNCHANGED <<typeIx, settled>>
             ELSE /\ notices' = Append(counted, [kind |-> "No relationships remain", type |-> type,
                                                 entity |-> entityName])
                  /\ NextType
                  /\ UNCHANGED <<rendering, renderer, diagramFiles>>
    /\ UNCHANGED <<fetchVars, entry, workbook, outputsDir, files, transformedRelationships, mapVars, runVars, overlap>>

\* a callback that removes the description only after a successful rendering
ExecCallbackKeepOnError(error) ==
    /\ pc = "render"
    /\ renderer.state = "running"
    /\ renderer' = [renderer EXCEPT !.state = "exited", !.error = error]
    /\ IF error # "none"
       THEN /\ notices' = Append(notices, [kind |-> "Error generating diagram", error |-> error])
            /\ rendering' = Rejected(error)
            /\ UNCHANGED diagramFiles
       ELSE /\ diagramFiles' = PutFile(Unlink(diagramFiles, renderer.input), renderer.output,
                                       (CHOOSE f \in diagramFiles : f.name = renderer.input).content)
            /\ notices' = Append(notices, [kind |-> "Diagram successfully saved", name |-> renderer.output])
            /\ rendering' = Resolved(<< >>)
    /\ UNCHANGED <<fetchVars, entry, pc, workbook, outputsDir, files, settled, history,
                   transformedRelationships, typeIx, mapVars, runVars, overlap>>

\* the callback of exec: the description file is removed (the directory it
\* was just created in is writable), then the promise is rejected with the
\* error of the renderer, or resolved with the image written by dot
ExecCallback(error) ==
    /\ pc = "render"
    /\ renderer.state = "running"
    /\ renderer' = [renderer EXCEPT !.state = "exited", !.error = error]
    /\ IF error # "none"
       THEN /\ diagramFiles' = Unlink(diagramFiles, renderer.input)
            /\ notices' = Append(notices, [kind |-> "Error generating diagram", error |-> error])
            /\ rendering' = Rejected(error)
       ELSE /\ diagramFiles' = PutFile(Unlink(diagramFiles, renderer.input), renderer.output,
                                       (CHOOSE f \in diagramFiles : f.name = renderer.input).content)
            /\ notices' = Append(notices, [kind |-> "Diagram successfully saved", name |-> renderer.output])
            /\ rendering' = Resolved(<< >>)
    /\ UNCHANGED <<fetchVars, entry, pc, workbook, outputsDir, files, settled, history,
                   transformedRelationships, typeIx, mapVars, runVars, overlap>>

\* the await returns: the diagram is reported and the loop goes on
RenderReturn ==
    /\ entry.function = "processEntityAll"
    /\ pc = "render"
    /\ rendering.status = "resolved"
    /\ notices' = Append(notices, [kind |-> "Diagram created", type |-> relationshipTypes[typeIx],
                                   name |-> diagramFileName(entityName, relationshipTypes[typeIx])])
    /\ rendering' = Idle
    /\ NextType
    /\ UNCHANGED <<fetchVars, entry, workbook, outputsDir, files, history,
                   transformedRelationships, renderer, diagramFiles, overlap, mapVars, runVars>>

\* a loop that goes on to the next type after a failed rendering
RenderThrowContinue ==
    /\ entry.function = "processEntityAll"
    /\ pc = "render"
    /\ rendering.status = "rejected"
    /\ rendering' = Idle
    /\ NextType
    /\ UNCHANGED <<fetchVars, entry, workbook, outputsDir, files, notices, history,
                   transformedRelationships, renderer, diagramFiles, overlap, mapVars, runVars>>

\* the await throws: the loop has no try/catch, the rejection leaves
\* processEntityAll
RenderThrow ==
    /\ entry.function = "processEntityAll"
    /\ pc = "render"
    /\ rendering.status = "rejected"
    /\ settled' = Rejected(rendering.error)
    /\ pc' = "done"
    /\ UNCHANGED <<fetchVars, entry, workbook, outputsDir, files, notices, history, mapVars, diagVars, runVars>>

(***************************************************************************)
(* The run driver of index.ts (src/unnamed/part_006): the token, then     *)
(* processEntityAll for every entity of the list, one after the other,    *)
(* inside one try/catch.                                                   *)
(***************************************************************************)
MainEntry == [function |-> "main", source |-> "src/unnamed/part_006", sheetsData |-> << >>]

\* the values an environment variable can have: unset, empty, set
EnvValues == {Undefined, Str(""), Str("set")}

Envs == [TENANT_ID : EnvValues, CLIENT_ID : EnvValues, CLIENT_SECRET : EnvValues]

\* process.env of a call that does not read it
NoEnv == [TENANT_ID |-> Undefined, CLIENT_ID |-> Undefined, CLIENT_SECRET |-> Undefined]

\* a test that looks at the tenant only
MissingTenantOnly(e) == ~Truthy(e.TENANT_ID)

\* !tenantId || !clientId || !clientSecret
MissingCredentials(e) == ~Truthy(e.TENANT_ID) \/ ~Truthy(e.CLIENT_ID) \/ ~Truthy(e.CLIENT_SECRET)

\* response.data.access_token: a token, or a body without one
TokenBodies == {Str("token"), Undefined}

\* the failures of the token POST
TokenErrors == {"Request failed with status code 401", "ECONNRESET"}

\* the state of one call of an export function before its first statement
NewHistory(dir) ==
    [dirAtStart |-> dir, added |-> << >>, fetches |-> << >>, saveReached |-> FALSE,
     writeError |-> "none", refetched |-> << >>, loops |-> << >>]

\* console.log(`Processing entity: ...`); await processEntityAll(accessToken, entity)
CallProcessEntityAll(k) ==
    /\ position' = k
    /\ entry' = [function |-> "processEntityAll", source |-> "src/src/processEntity.ts", sheetsData |-> << >>]
    /\ pc' = "attributes"
    /\ settled' = Pending
    /\ workbook' = << >>
    /\ history' = NewHistory(outputsDir)
    /\ transformedRelationships' = << >>
    /\ typeIx' = 0
    /\ rendering' = Idle
    /\ renderer' = NoExec

\* the catch of getAccessToken logs and throws again; the catch of the
\* driver logs; nothing is left to run and the process ends with code 0
RunFails(log, error) ==
    /\ notices' = log \o <<[kind |-> "Error getting access token", error |-> error],
                           [kind |-> "Unhandled error", error |-> error]>>
    /\ pc' = "exit"
    /\ exit' = 0

\* the driver starts and getAccessToken runs up to its throw or its await
getAccessToken ==
    /\ entry.function = "main"
    /\ pc = "token"
    /\ IF MissingCredentials(env)
       THEN /\ RunFails(Append(notices, [kind |-> "Fetching access token..."]),
                        "Missing TENANT_ID, CLIENT_ID or CLIENT_SECRET in environment variables.")
            /\ UNCHANGED tokenPost
       ELSE /\ notices' = Append(notices, [kind |-> "Fetching access token..."])
            /\ tokenPost' = "sent"
            /\ pc' = "tokenwait"
            /\ UNCHANGED exit
    /\ UNCHANGED <<fetchVars, entry, workbook, outputsDir, files, settled, history,
                   env, accessToken, position, mapVars, diagVars>>

\* the token POST is answered: getAccessToken returns the access_token of
\* the body and the loop over listOfEntites starts
TokenAnswer(tok) ==
    /\ entry.function = "main"
    /\ pc = "tokenwait"
    /\ tokenPost' = "answered"
    /\ accessToken' = tok
    /\ notices' = notices \o <<[kind |-> "Access token acquired."],
                               [kind |-> "Processing entity", entity |-> listOfEntites[1]]>>
    /\ CallProcessEntityAll(1)
    /\ UNCHANGED <<fetchVars, outputsDir, files, diagramFiles, overlap, env, exit, mapVars>>

\* a driver that goes on to the entities after a failed token POST
TokenFailContinue(e) ==
    /\ entry.function = "main"
    /\ pc = "tokenwait"
    /\ tokenPost' = "failed"
    /\ notices' = notices \o <<[kind |-> "Error getting access token", error |-> e],
                               [kind |-> "Processing entity", entity |-> listOfEntites[1]]>>
    /\ CallProcessEntityAll(1)
    /\ UNCHANGED <<fetchVars, outputsDir, files, diagramFiles, overlap, env, accessToken, exit, mapVars>>

\* the token POST fails
TokenFail(e) ==
    /\ entry.function = "main"
    /\ pc = "tokenwait"
    /\ tokenPost' = "failed"
    /\ RunFails(notices, e)
    /\ UNCHANGED <<fetchVars, entry, workbook, outputsDir, files, settled, history,
                   env, accessToken, position, mapVars, diagVars>>

\* a driver that ends the run after the first entity that returns
DriverReturnStop ==
    /\ position > 0
    /\ entry.function = "processEntityAll"
    /\ pc = "done"
    /\ settled.status = "resolved"
    /\ notices' = Append(notices, [kind |-> "Finished processing entity", entity |-> entityName])
    /\ entry' = MainEntry
    /\ pc' = "exit"
    /\ exit' = 0
    /\ UNCHANGED <<fetchVars, workbook, outputsDir, files, settled, history,
                   env, tokenPost, accessToken, position, mapVars, diagVars>>

\* the await of processEntityAll returns: the next entity, or the end
DriverReturn ==
    /\ position > 0
    /\ entry.function = "processEntityAll"
    /\ pc = "done"
    /\ settled.status = "resolved"
    /\ IF position < Len(listOfEntites)
       THEN /\ notices' = notices \o <<[kind |-> "Finished processing entity", entity |-> entityName],
                                       [kind |-> "Processing entity", entity |-> listOfEntites[position + 1]]>>
            /\ CallProcessEntityAll(position + 1)
            /\ UNCHANGED exit
       ELSE /\ notices' = Append(notices, [kind |-> "Finished processing entity", entity |-> entityName])
            /\ entry' = MainEntry
            /\ pc' = "exit"
            /\ exit' = 0
            /\ UNCHANGED <<workbook, settled, history, position, diagVars>>
    /\ UNCHANGED <<fetchVars, outputsDir, files, diagramFiles, overlap, env, tokenPost, accessToken, mapVars>>

\* a catch inside the loop: the error is logged and the next entity follows
DriverCatchContinue ==
    /\ position > 0
    /\ entry.function = "processEntityAll"
    /\ pc = "done"
    /\ settled.status = "rejected"
    /\ IF position < Len(listOfEntites)
       THEN /\ notices' = notices \o <<[kind |-> "Unhandled error", error |-> settled.error],
                                       [kind |-> "Processing entity", entity |-> listOfEntites[position + 1]]>>
            /\ CallProcessEntityAll(position + 1)
            /\ UNCHANGED exit
       ELSE /\ notices' = Append(notices, [kind |-> "Unhandled error", error |-> settled.error])
            /\ entry' = MainEntry
            /\ pc' = "exit"
            /\ exit' = 0
            /\ UNCHANGED <<workbook, settled, history, position, diagVars>>
    /\ UNCHANGED <<fetchVars, outputsDir, files, diagramFiles, overlap, env, tokenPost, accessToken, mapVars>>

\* the await of processEntityAll throws: the catch around the loop logs the
\* error; the loop is left and the process ends with code 0
DriverCatch ==
    /\ position > 0
    /\ entry.function = "processEntityAll"
    /\ pc = "done"
    /\ settled.status = "rejected"
    /\ notices' = Append(notices, [kind |-> "Unhandled error", error |-> settled.error])
    /\ entry' = MainEntry
    /\ pc' = "exit"
    /\ exit' = 0
    /\ UNCHANGED <<fetchVars, workbook, outputsDir, files, settled, history,
                   env, tokenPost, accessToken, position, mapVars, diagVars>>

(***************************************************************************)
(* Spec: one call of an export function, or one run of the driver over   *)
(* MaxEntities entities, against API contents of up to MaxBookPages pages *)
(* per collection and inputs of up to MaxSheets sheets.                    *)
(***************************************************************************)
MaxBookPages == 2

MaxSheets == 2

\* a chain of k pages of a collection, carrying one and two records in
\* turn; k = 0 stands for a single page with an empty value array
BookChain(c, k) ==
    IF k = 0
    THEN <<[status |-> 200, value |-> Arr(<< >>), next |-> NoLink]>>
    ELSE [j \in 1..k |->
            [status |-> 200,
             value |-> IF j % 2 = 1 THEN Arr(<<FixtureRecord(c, 1)>>)
                       ELSE Arr(<<FixtureRecord(c, 1), FixtureRecord(c, 2)>>),
             next |-> IF j < k THEN Url(c, EntityName, Filter(CategoryOf(c)), j + 1) ELSE NoLink]]

\* the records of the end-to-end scenarios: three attributes of which the
\* second has no Description; five one-to-many relationships over two pages,
\* three many-to-one, no many-to-many
ScenarioNames == <<"account_contacts", "second", "third", "fourth", "fifth">>

ScenarioRecord(c, n) ==
    LET r == [FixtureRecord(c, 1) EXCEPT ![NameField(CategoryOf(c))] = Str(ScenarioNames[n])]
    IN IF c = "Attributes" /\ n = 2
       THEN [f \in DOMAIN r \ {"Description"} |-> r[f]]
       ELSE r

ScenarioPage(c, from, to, link) ==
    [status |-> 200, value |-> Arr([n \in 1..(to - from + 1) |-> ScenarioRecord(c, n + from - 1)]), next |-> link]

ScenarioServer ==
    [c \in AllCollections |->
        CASE c = "Attributes" -> <<ScenarioPage(c, 1, 3, NoLink)>>
          [] c = "OneToManyRelationships" ->
               <<ScenarioPage(c, 1, 3, Url(c, EntityName, {}, 2)), ScenarioPage(c, 4, 5, NoLink)>>
          [] c = "ManyToOneRelationships" -> <<ScenarioPage(c, 1, 3, NoLink)>>
          [] c = "ManyToManyRelationships" -> <<ScenarioPage(c, 1, 0, NoLink)>>
          [] OTHER -> BookChain(c, 1)]

\* relationship records that differ in the two flags and in their names
FlagRecord(c, name, custom, changed, referenced, referencing) ==
    [FixtureRecord(c, 1) EXCEPT !["SchemaName"] = Str(name),
                                !["IsCustomRelationship"] = Bool(custom),
                                !["HasChanged"] = changed,
                                !["ReferencedEntity"] = Str(referenced),
                                !["ReferencingEntity"] = Str(referencing)]

\* the API contents that tell the filter's cases apart: unflagged, custom,
\* changed, and names with mssp in them; among the workflows of the entity
\* one that is no business rule
FlagsServer ==
    [c \in AllCollections |->
        CASE c = "OneToManyRelationships" ->
               <<[status |-> 200, next |-> NoLink,
                  value |-> Arr(<<FlagRecord(c, "account_contacts", FALSE, Null, "account", "contact"),
                                  FlagRecord(c, "new_custom", TRUE, Null, "account", "order_item"),
                                  FlagRecord(c, "changed_rel", FALSE, Str("1"), "account", "contact"),
                                  FlagRecord(c, "new_MSSP_link", TRUE, Str("1"), "account", "contact"),
                                  FlagRecord(c, "msdyn_flow", TRUE, Null, "account", "contact")>>)]>>
          [] c = "ManyToOneRelationships" ->
               <<[status |-> 200, next |-> NoLink,
                  value |-> Arr(<<FlagRecord(c, "plain_order", FALSE, Null, "Mssp_Order", "account"),
                                  FlagRecord(c, "accountleads", TRUE, Null, "account", "Mssp_Order")>>)]>>
          [] c = "ManyToManyRelationships" ->
               <<[status |-> 200, next |-> NoLink,
                  value |-> Arr(<<FlagRecord(c, "accountleads", TRUE, Str("1"), "account", "contact")>>)]>>
          [] c = "workflows" ->
               <<[status |-> 200, next |-> NoLink,
                  value |-> Arr(<<FixtureRecord(c, 1),
                                  [FixtureRecord(c, 2) EXCEPT !["category"] = Num(0)]>>)]>>
          [] OTHER -> BookChain(c, 1)]

\* the API contents of a run: every collection with k pages, or forms and
\* business rules empty beside one page of everything else
BookServers ==
    {[c \in AllCollections |-> BookChain(c, k)] : k \in 0..MaxBookPages}
    \cup {[c \in AllCollections |-> BookChain(c, IF c \in {"systemforms", "workflows"} THEN 0 ELSE 1)]}
    \cup {ScenarioServer, FlagsServer}

SheetNames == <<"Sheet1", "Sheet2", "Sheet3", "Sheet4">>

RowA == << <<"a", Num(1)>>, <<"b", Num(2)>> >>

RowB == << <<"b", Num(3)>>, <<"c", Num(4)>> >>

\* record arrays a caller can hand over: none, one row, rows with unlike keys
RecordLists == {<< >>, <<RowA>>, <<RowA, RowB>>, <<RowB, RowA>>}

SheetsInputs ==
    UNION {{[i \in 1..n |-> [sheetName |-> SheetNames[i], records |-> recs[i]]] :
               recs \in [1..n -> RecordLists]} : n \in 0..MaxSheets}

Init ==
    /\ mcat = "none"
    /\ raw = << >>
    /\ row = NoRow
    /\ edits = 0
    /\ entry \in {MainEntry}
                 \cup {[function |-> "processEntityAll", source |-> src, sheetsData |-> << >>] :
                     src \in ProcessEntityAllSources}
                 \cup {[function |-> "processEntityColumns", source |-> src, sheetsData |-> << >>] :
                     src \in ProcessEntityColumnsSources}
                 \cup {[function |-> "createWorkbookForEntity", source |-> src, sheetsData |-> d] :
                     src \in CreateWorkbookSources, d \in SheetsInputs}
    /\ pc = CASE entry.function = "createWorkbookForEntity" -> "start"
              [] entry.function = "main" -> "token"
              [] OTHER -> "attributes"
    /\ workbook = << >>
    /\ outputsDir \in BOOLEAN
    /\ files = {}
    /\ notices = << >>
    /\ settled = Pending
    /\ history = NewHistory(outputsDir)
    /\ server \in IF entry.function # "createWorkbookForEntity" THEN BookServers
                  ELSE {[c \in AllCollections |-> BookChain(c, 0)]}
    /\ fetcher = NoFetcher
    /\ coll = 1
    /\ nextLink = NullLink
    /\ results = << >>
    /\ parts = << >>
    /\ inflight = NoUrl
    /\ requests = << >>
    /\ faults = << >>
    /\ fetched = Idle
    /\ transformedRelationships = << >>
    /\ typeIx = 0
    /\ rendering = [status |-> "idle", value |-> << >>, error |-> ""]
    /\ renderer = [state |-> "none", output |-> << >>, input |-> << >>, error |-> "none"]
    /\ diagramFiles = {}
    /\ overlap = << >>
    /\ env \in IF entry.function = "main" THEN Envs ELSE {NoEnv}
    /\ tokenPost = "none"
    /\ accessToken = IF entry.function = "main" THEN Undefined ELSE Str("token")
    /\ position = 0
    /\ exit = "running"

Next ==
    \/ SendGet
    \/ PageResponse
    \/ PageReturn
    \/ RelationshipsReturn
    \/ RulesResponse
    \/ \E e \in RequestErrors : RequestFail(e)
    \/ ColumnsInline
    \/ addColumnsSheet
    \/ addRelationshipsSheet
    \/ addFormsSheet
    \/ addViewsSheet
    \/ addBusinessRulesSheet
    \/ SaveWorkbook
    \/ processEntityColumns
    \/ writeAttributesToExcel
    \/ createWorkbookForEntity
    \/ WriteWorkbook
    \/ RefetchCall
    \/ RefetchReturn
    \/ RefetchThrow
    \/ DiagramLoop
    \/ \E error \in RenderErrors \cup {"none"} : ExecCallback(error)
    \/ RenderReturn
    \/ RenderThrow
    \/ getAccessToken
    \/ \E tok \in TokenBodies : TokenAnswer(tok)
    \/ \E e \in TokenErrors : TokenFail(e)
    \/ DriverReturn
    \/ DriverCatch

Spec == Init /\ [][Next]_vars

(***************************************************************************)
(* SpecOverlap: generateRelationshipDiagram is called MaxCalls times by a *)
(* caller that does not await the promises.  The executor of an            *)
(* invocation runs to its end when the function is called; the dot         *)
(* processes run beside the event loop; a callback runs when its dot has   *)
(* exited.  Every invocation uses the same path temp_relationships.dot.    *)
(***************************************************************************)
MaxCalls == 2

\* mapped relationships a caller hands over
CustomOneToMany ==
    transformRelationship(FlagRecord("OneToManyRelationships", "new_custom", TRUE, Null, "account", "order_item"))

ChangedManyToOne ==
    transformRelationship(FlagRecord("ManyToOneRelationships", "changed_rel", FALSE, Str("1"), "contact", "account"))

RelationshipLists == {<<CustomOneToMany>>, <<ChangedManyToOne>>, <<CustomOneToMany, ChangedManyToOne>>}

\* an invocation before its call: the arguments, no process, no promise
NewCall(relationships, outputFileName) ==
    [relationships |-> relationships, outputFileName |-> outputFileName, state |-> "uncalled",
     promise |-> Idle, hasRead |-> FALSE, read |-> << >>, removed |-> << >>]

\* const dotContent = generateDot(relationships, filterOptions)
dotContent(i) == generateDot(overlap[i].relationships, [excludeDefault |-> FALSE])

TempFile == CHOOSE f \in diagramFiles : f.name = tempDotPath

OverlapFrame == <<mapVars, fetchVars, entry, pc, workbook, outputsDir, files, settled, history,
                  transformedRelationships, typeIx, rendering, renderer, runVars>>

\* generateRelationshipDiagram(relationships, outputFileName, filterOptions):
\* the executor writes the description to tempDotPath and starts dot
generateRelationshipDiagram(i) ==
    /\ overlap[i].state = "uncalled"
    /\ notices' = notices \o DotNotices(overlap[i].relationships, [excludeDefault |-> FALSE])
    /\ diagramFiles' = PutFile(diagramFiles, tempDotPath, dotContent(i))
    /\ overlap' = [overlap EXCEPT ![i].state = "spawned", ![i].promise = Pending]
    /\ UNCHANGED OverlapFrame

\* dot -Tpng -o outputFilePath tempDotPath: the process opens its input and
\* reads what the path holds at that moment, or finds no file
DotOpensInput(i) ==
    /\ overlap[i].state = "spawned"
    /\ IF \E f \in diagramFiles : f.name = tempDotPath
       THEN overlap' = [overlap EXCEPT ![i].state = "read", ![i].hasRead = TRUE, ![i].read = TempFile.content]
       ELSE overlap' = [overlap EXCEPT ![i].state = "noinput"]
    /\ UNCHANGED <<OverlapFrame, notices, diagramFiles>>

\* the callback of exec after dot has exited (without an error only when it
\* has read an input): fs.unlinkSync(tempDotPath) throws when the path holds
\* no file, and then neither reject nor resolve is reached; otherwise the
\* file at the path is removed and the promise is rejected or resolved
\* (a dot that ended without an error has written its image either way)
ExecCallbackOf(i, error) ==
    /\ overlap[i].state \in {"spawned", "read", "noinput"}
    /\ error = "none" => overlap[i].state = "read"
    /\ IF ~\E f \in diagramFiles : f.name = tempDotPath
       THEN /\ overlap' = [overlap EXCEPT ![i].state = "thrown"]
            /\ diagramFiles' = IF error = "none"
                               THEN PutFile(diagramFiles, overlap[i].outputFileName, overlap[i].read)
                               ELSE diagramFiles
            /\ UNCHANGED notices
       ELSE /\ overlap' = [overlap EXCEPT ![i].state = "settled",
                                          ![i].removed = TempFile.content,
                                          ![i].promise = IF error = "none" THEN Resolved(<< >>)
                                                         ELSE Rejected(error)]
            /\ diagramFiles' = IF error = "none"
                               THEN PutFile(Unlink(diagramFiles, tempDotPath),
                                            overlap[i].outputFileName, overlap[i].read)
                               ELSE Unlink(diagramFiles, tempDotPath)
            /\ notices' = Append(notices,
                                 IF error = "none"
                                 THEN [kind |-> "Diagram successfully saved", name |-> overlap[i].outputFileName]
                                 ELSE [kind |-> "Error generating diagram", error |-> error])
    /\ UNCHANGED OverlapFrame

OverlapInit ==
    /\ mcat = "none"
    /\ raw = << >>
    /\ row = NoRow
    /\ edits = 0
    /\ server = [c \in AllCollections |-> << >>]
    /\ fetcher = NoFetcher
    /\ coll = 1
    /\ nextLink = NullLink
    /\ results = << >>
    /\ parts = << >>
    /\ inflight = NoUrl
    /\ requests = << >>
    /\ faults = << >>
    /\ fetched = Idle
    /\ entry = <<"none", "none">>
    /\ pc = "idle"
    /\ workbook = << >>
    /\ outputsDir = FALSE
    /\ files = {}
    /\ notices = << >>
    /\ settled = Idle
    /\ history = << >>
    /\ transformedRelationships = << >>
    /\ typeIx = 0
    /\ rendering = Idle
    /\ renderer = NoExec
    /\ diagramFiles = {}
    /\ overlap \in {[i \in 1..MaxCalls |-> NewCall(rels[i], diagramFileName(EntityName, relationshipTypes[i]))] :
                        rels \in [1..MaxCalls -> RelationshipLists]}
    /\ env = NoEnv
    /\ tokenPost = "none"
    /\ accessToken = Str("token")
    /\ position = 0
    /\ exit = "running"

OverlapNext ==
    \E i \in 1..MaxCalls :
        \/ generateRelationshipDiagram(i)
        \/ DotOpensInput(i)
        \/ \E error \in RenderErrors \cup {"none"} : ExecCallbackOf(i, error)

SpecOverlap == OverlapInit /\ [][OverlapNext]_vars

(***************************************************************************)
(* Claims about the workbook export (Spec).                                *)
(***************************************************************************)
\* C7: every sheet added by createWorkbookForEntity, by addRelationshipsSheet,
\* addFormsSheet, addViewsSheet, addBusinessRulesSheet or by the Columns step
\* written out in processEntityAll is in the workbook under its name; when
\* its row sequence is non-empty its header is the key sequence of the first
\* row, in that order; when the sequence is empty the sheet has no header
\* and no rows.
Thm_C7_HeaderFromFirstRow ==
    /\ Len(workbook) = Len(history.added)
    /\ \A i \in DOMAIN history.added :
           history.added[i].by # "addColumnsSheet" =>
               /\ workbook[i].name = history.added[i].name
               /\ Len(history.added[i].rows) > 0 =>
                      workbook[i].columns = ObjectKeys(history.added[i].rows[1])
               /\ Len(history.added[i].rows) = 0 =>
                      workbook[i].columns = << >> /\ workbook[i].rows = << >>

\* C7 witness: processEntityAll has added a Relationships sheet with the
\* header of its first row and, from an empty fetch, a Forms sheet without
\* header and rows
Wit_C7_HeaderAndHeaderless ==
    /\ entry.function = "processEntityAll"
    /\ Len(workbook) >= 3
    /\ history.added[2].by = "addRelationshipsSheet"
    /\ Len(history.added[2].rows) > 0
    /\ workbook[2].columns = ObjectKeys(transformRelationship(SampleRecord("relationships")))
    /\ history.added[3].by = "addFormsSheet"
    /\ history.added[3].rows = << >>
    /\ workbook[3] = [name |-> "Forms", columns |-> << >>, rows |-> << >>]

\* C8: when ./outputs is absent at the start and the run reaches the save of
\* the workbook (no other fault of the file system taken into account), the
\* directory exists afterwards and the workbook file is written in it.
Claim_C8_SaveCreatesOutputs ==
    (~history.dirAtStart /\ history.saveReached /\ history.writeError # "EACCES") =>
        /\ outputsDir
        /\ \E f \in files : f.path = WrittenPath(entry)

\* C9: when the write of the workbook file fails, the promise of
\* createWorkbookForEntity rejects.
Claim_C9_FailedWriteRejects ==
    (entry.function = "createWorkbookForEntity" /\ history.saveReached /\ history.writeError # "none") =>
        settled.status = "rejected"

\* C10: once processEntityAll has saved the workbook, the workbook holds the
\* five sheets "Columns", "Relationships", "Forms", "Views", "Business Rules"
\* in that order, the file outputs/<entityName>.xlsx holds that workbook, and
\* the 'Wrote file' notice names that same path.
Claim_C10_FiveSheetsOneFile ==
    (entry.function = "processEntityAll" /\ history.saveReached /\ history.writeError = "none") =>
        /\ [i \in DOMAIN workbook |-> workbook[i].name] =
               <<"Columns", "Relationships", "Forms", "Views", "Business Rules">>
        /\ \E f \in files : f.path = OutputPath(EntityName, ".xlsx") /\ f.sheets = workbook
        /\ \E n \in DOMAIN notices :
               notices[n] = [kind |-> "Wrote file", path |-> OutputPath(EntityName, ".xlsx")]

\* the cell of row j of a sheet under the column with the given header
CellOf(sheet, j, key) ==
    sheet.rows[j][CHOOSE k \in DOMAIN sheet.columns : sheet.columns[k] = key]

\* C11: a sheet built from a fetch (by addRelationshipsSheet, addFormsSheet,
\* addViewsSheet, addBusinessRulesSheet, the Columns step written out in
\* processEntityAll, or processEntityColumns) holds one row per fetched
\* record, in fetch order, row j holding under every header the value the
\* category's mapper gives record j; an attribute record without Description
\* gets the empty string in the Description column.
Thm_C11_RowPerRecord ==
    \A i \in DOMAIN history.fetches :
        history.added[i].by # "addColumnsSheet" =>
            LET recs == history.fetches[i].value
                cat == history.fetches[i].category
            IN /\ Len(workbook[i].rows) = Len(recs)
               /\ \A j \in DOMAIN recs :
                      /\ workbook[i].columns = ObjectKeys(Mapper(cat, recs[j]))
                      /\ \A k \in DOMAIN workbook[i].columns :
                             workbook[i].rows[j][k] = Mapper(cat, recs[j])[k][2]
                      /\ (cat = "attributes" /\ "Description" \notin DOMAIN recs[j]) =>
                             CellOf(workbook[i], j, "Description") = Str("")

\* C11 witness: from a single page of three attribute records, the second
\* without Description, the Columns sheet has three rows, the second with an
\* empty Description and the others with their label
Wit_C11_ThreeAttributes ==
    /\ Len(workbook) >= 1
    /\ Len(history.fetches) >= 1
    /\ history.added[1].by \in {"processEntityAll", "writeAttributesToExcel"}
    /\ Len(server["Attributes"]) = 1
    /\ Len(history.fetches[1].value) = 3
    /\ "Description" \notin DOMAIN history.fetches[1].value[2]
    /\ workbook[1].name = "Columns"
    /\ Len(workbook[1].rows) = 3
    /\ CellOf(workbook[1], 2, "Description") = Str("")
    /\ CellOf(workbook[1], 1, "Description") = Str("Account number")
    /\ CellOf(workbook[1], 2, "Name") = Str("second")

(***************************************************************************)
(* Claims about the diagram phase (Spec).                                  *)
(***************************************************************************)
HeadSource == "src/src/processEntity.ts"

\* the mapped rows of the given raw relationships that have the type and
\* pass shouldIncludeRelationship
Survivors(raws, type) ==
    SelectSeq(MapRows("relationships", raws),
              LAMBDA rel : RowGet(rel, "Type") = Str(type) /\ shouldIncludeRelationship(rel))

\* how often a line was logged
Logged(line) == Cardinality({i \in DOMAIN notices : notices[i] = line})

\* the place of the one line that ends the pass of a type
PassEnd(type) ==
    CHOOSE i \in DOMAIN notices :
        \/ notices[i] = [kind |-> "Diagram created", type |-> type, name |-> diagramFileName(entityName, type)]
        \/ notices[i] = [kind |-> "No relationships remain", type |-> type, entity |-> entityName]

\* C12: when processEntityAll has resolved, every relationship type with at
\* least one relationship that survives the filter has exactly one diagram,
\* named <entityName>-<type>.png and reported once, and no zero-count
\* notice; every type without survivors has no diagram and one zero-count
\* notice; the three passes ended in the order of relationshipTypes
Thm_C12_DiagramPerNonEmptyType ==
    (entry.source = HeadSource /\ pc = "done" /\ settled.status = "resolved") =>
        /\ \A t \in DOMAIN relationshipTypes :
               LET type == relationshipTypes[t]
                   name == diagramFileName(entityName, type)
                   created == [kind |-> "Diagram created", type |-> type, name |-> name]
                   none == [kind |-> "No relationships remain", type |-> type, entity |-> entityName]
               IN IF Survivors(history.refetched, type) # << >>
                  THEN /\ Cardinality({f \in diagramFiles : f.name = name}) = 1
                       /\ Logged(created) = 1
                       /\ Logged(none) = 0
                  ELSE /\ {f \in diagramFiles : f.name = name} = {}
                       /\ Logged(created) = 0
                       /\ Logged(none) = 1
        /\ PassEnd(relationshipTypes[1]) < PassEnd(relationshipTypes[2])
        /\ PassEnd(relationshipTypes[2]) < PassEnd(relationshipTypes[3])
        /\ [i \in DOMAIN history.loops |-> history.loops[i].type] = relationshipTypes

\* the end-to-end scenario: two relationship pages of the first collection,
\* 5, 3 and 0 survivors, exactly the two diagrams of the non-empty types
Wit_C12_TwoOfThreeRendered ==
    /\ entry.source = HeadSource
    /\ pc = "done"
    /\ settled.status = "resolved"
    /\ Len(server["OneToManyRelationships"]) = 2
    /\ [t \in DOMAIN relationshipTypes |-> Len(Survivors(history.refetched, relationshipTypes[t]))] = <<5, 3, 0>>
    /\ {f.name : f \in diagramFiles} =
           {diagramFileName(entityName, relationshipTypes[1]), diagramFileName(entityName, relationshipTypes[2])}
    /\ Logged([kind |-> "No relationships remain", type |-> relationshipTypes[3], entity |-> entityName]) = 1

\* the raw relationships of the second fetch that carry neither flag
Unflagged == {i \in DOMAIN history.refetched :
                 /\ Get(history.refetched[i], "HasChanged") = Null
                 /\ Get(history.refetched[i], "IsCustomRelationship") = Bool(FALSE)}

\* the schema names of the edges of the diagrams
EdgeNames == UNION {{f.content[i].label[1] : i \in DOMAIN f.content} : f \in diagramFiles}

\* C13: a relationship fetched with HasChanged null and IsCustomRelationship
\* false passes no pass of the filter and is an edge of no diagram
Claim_C13_UnflaggedExcluded ==
    \A i \in Unflagged :
        /\ \A p \in DOMAIN history.loops :
               \A j \in DOMAIN history.loops[p].filtered :
                   RowGet(history.loops[p].filtered[j], "Schema Name") # Get(history.refetched[i], "SchemaName")
        /\ Get(history.refetched[i], "SchemaName") \notin EdgeNames

\* the name is a string that contains "mssp" in any case
NamesMssp(v) == v[1] = "string" /\ includes(toLowerCase(Chars(v[2])), Chars("mssp"))

\* one of the three names of a raw relationship contains "mssp"
RawHasMssp(fetchedRel) ==
    \/ NamesMssp(Get(fetchedRel, "SchemaName"))
    \/ NamesMssp(Get(fetchedRel, "ReferencedEntity"))
    \/ NamesMssp(Get(fetchedRel, "ReferencingEntity"))

\* the raw relationship is flagged custom or changed
RawFlagged(fetchedRel) == Get(fetchedRel, "IsCustomRelationship") = Bool(TRUE) \/ Get(fetchedRel, "HasChanged") # Null

\* the row of the raw relationship passed the filter in some pass of the loop
Kept(fetchedRel) ==
    \E p \in DOMAIN history.loops :
        \E j \in DOMAIN history.loops[p].filtered :
            history.loops[p].filtered[j] = transformRelationship(fetchedRel)

\* C14: once the three passes are over, a fetched relationship was kept by
\* the filter exactly when none of its three names contains "mssp" and it is
\* flagged custom or changed
Claim_C14_ExclusionThenFlags ==
    Len(history.loops) = Len(relationshipTypes) =>
        \A i \in DOMAIN history.refetched :
            Kept(history.refetched[i]) <=>
                (~RawHasMssp(history.refetched[i]) /\ RawFlagged(history.refetched[i]))

\* the exclusion half of C14 alone: a relationship with "mssp" in one of its
\* three names is never kept, whatever its flags
MsspNeverKept ==
    \A i \in DOMAIN history.refetched : RawHasMssp(history.refetched[i]) => ~Kept(history.refetched[i])

\* the markers the flags of a raw relationship call for
Markers(fetchedRel) ==
    (IF Get(fetchedRel, "IsCustomRelationship") = Bool(TRUE) THEN <<"[Custom]">> ELSE << >>)
    \o (IF Get(fetchedRel, "HasChanged") # Null THEN <<"[Changed]">> ELSE << >>)

\* C15: every diagram has one edge per relationship that passed the filter
\* of its pass, and the label of every edge carries [Custom] exactly when
\* the fetched record has IsCustomRelationship true and [Changed] exactly
\* when the fetched record has a non-null HasChanged
Claim_C15_EdgePerSurvivorWithMarkers ==
    \A f \in diagramFiles : f.name # tempDotPath =>
        /\ \E p \in DOMAIN history.loops :
               /\ f.name = diagramFileName(f.name[1], history.loops[p].type)
               /\ Len(f.content) = Len(history.loops[p].filtered)
        /\ \A i \in DOMAIN f.content :
               \E k \in DOMAIN history.refetched :
                   /\ Get(history.refetched[k], "SchemaName") = f.content[i].label[1]
                   /\ SubSeq(f.content[i].label, 3, Len(f.content[i].label)) = Markers(history.refetched[k])

\* the edge-count half of C15 alone
EdgePerSurvivor ==
    (entry.source = HeadSource /\ pc = "done" /\ settled.status = "resolved") =>
        \A p \in DOMAIN history.loops :
            history.loops[p].filtered # << >> =>
                \E f \in diagramFiles :
                    /\ f.name = diagramFileName(entityName, history.loops[p].type)
                    /\ Len(f.content) = Len(history.loops[p].filtered)

\* the description file is in the diagrams directory
TempExists == \E f \in diagramFiles : f.name = tempDotPath

\* C16: the temporary description file exists only while the promise of the
\* generateRelationshipDiagram call that wrote it is pending; once the
\* promise is resolved or rejected, and from then on, the file is gone
Thm_C16_TempFileGoneWhenSettled ==
    TempExists => (rendering.status = "pending" /\ renderer.state = "running")

\* the renderer failed in the second pass: the description was written, the
\* promise is rejected and the file is gone
Wit_C16_RejectedAndCleaned ==
    /\ rendering.status = "rejected"
    /\ renderer.state = "exited"
    /\ renderer.input = tempDotPath
    /\ renderer.error \in RenderErrors
    /\ typeIx = 2
    /\ ~TempExists

\* the diagrams of this entity for the types after the one of the current pass
LaterDiagrams ==
    {f \in diagramFiles :
        \E t \in DOMAIN relationshipTypes : t > typeIx /\ f.name = diagramFileName(entityName, relationshipTypes[t])}

\* C17: when exec has handed an error to its callback, the promise of
\* generateRelationshipDiagram is rejected with that error and the
\* description file is gone; the caller of processEntityAll has either not
\* run since, or been handed that same error; and the loop went no further:
\* no pass after the failed one was started and no diagram of a later type
\* exists for the entity
Thm_C17_RendererErrorPropagates ==
    (renderer.state = "exited" /\ renderer.error # "none") =>
        /\ rendering = Rejected(renderer.error)
        /\ ~TempExists
        /\ \/ pc = "render" /\ settled.status = "pending"
           \/ settled = Rejected(renderer.error)
        /\ Len(history.loops) = typeIx
        /\ renderer.output = diagramFileName(entityName, relationshipTypes[typeIx])
        /\ LaterDiagrams = {}
        /\ \A f \in diagramFiles : f.name # renderer.output

\* the renderer failed on the first of two non-empty types and the caller
\* of processEntityAll holds the rejection
Wit_C17_FirstTypeFailed ==
    /\ renderer.state = "exited"
    /\ renderer.error = "Command failed: dot: not found"
    /\ typeIx = 1
    /\ settled = Rejected(renderer.error)
    /\ Survivors(history.refetched, relationshipTypes[2]) # << >>
    /\ diagramFiles = {}

(***************************************************************************)
(* Claims about the run driver (Spec).                                     *)
(***************************************************************************)
\* the state belongs to a run of the driver
DriverRun == entry = MainEntry \/ position > 0

\* the entities the driver has announced with "Processing entity"
Announced == {notices[i].entity : i \in {j \in DOMAIN notices : notices[j].kind = "Processing entity"}}

\* the entities something was requested or written for
Touched ==
    {requests[i].entity : i \in DOMAIN requests}
    \cup {f.path[2] : f \in files}
    \cup {f.name[1] : f \in {g \in diagramFiles : g.name # tempDotPath}}

\* C18: in a run of the driver, the entities processed so far are those at
\* the positions up to the current one, requests are issued and files are
\* written for them only, and once the driver has caught an error nothing
\* follows it: no further entity is announced or processed
Thm_C18_FailFast ==
    DriverRun =>
        /\ Announced = {listOfEntites[k] : k \in 1..position}
        /\ Touched \subseteq Announced
        /\ \A i \in DOMAIN notices :
               notices[i].kind = "Unhandled error" =>
                   /\ i = Len(notices)
                   /\ pc = "exit"
                   /\ entry = MainEntry

\* processEntityAll failed for the first entity after it had issued
\* requests; the run is over and the second entity was never touched
Wit_C18_FirstEntityFailed ==
    /\ pc = "exit"
    /\ position = 1
    /\ Len(listOfEntites) > 1
    /\ tokenPost = "answered"
    /\ settled.status = "rejected"
    /\ notices[Len(notices)].kind = "Unhandled error"
    /\ files # {}
    /\ Touched = {listOfEntites[1]}

\* C19: a run of the driver that ended after an error of getAccessToken or
\* of processEntityAll ends as a failed process (a non-zero exit code)
Claim_C19_ErrorFailsTheProcess ==
    (DriverRun /\ pc = "exit" /\ \E i \in DOMAIN notices : notices[i].kind = "Unhandled error") =>
        exit # 0

\* one of the three variables is unset or empty
CredentialMissing ==
    \E v \in {"TENANT_ID", "CLIENT_ID", "CLIENT_SECRET"} : env[v] \in {Undefined, Str("")}

\* C20: in a run of the driver with TENANT_ID, CLIENT_ID or CLIENT_SECRET
\* unset or empty, the token POST is never sent, no metadata GET is issued,
\* no entity is processed and nothing is written; the run ends with the
\* error of getAccessToken
Thm_C20_ConfigErrorBeforeNetwork ==
    (DriverRun /\ CredentialMissing) =>
        /\ tokenPost = "none"
        /\ requests = << >>
        /\ inflight = NoUrl
        /\ position = 0
        /\ Announced = {}
        /\ files = {}
        /\ diagramFiles = {}
        /\ pc \in {"token", "exit"}
        /\ pc = "exit" =>
               \E i \in DOMAIN notices :
                   notices[i] = [kind |-> "Error getting access token",
                                 error |-> "Missing TENANT_ID, CLIENT_ID or CLIENT_SECRET in environment variables."]

\* the run ended on an empty CLIENT_SECRET beside a set tenant and client
Wit_C20_EmptySecret ==
    /\ entry = MainEntry
    /\ pc = "exit"
    /\ env = [TENANT_ID |-> Str("set"), CLIENT_ID |-> Str("set"), CLIENT_SECRET |-> Str("")]
    /\ tokenPost = "none"
    /\ requests = << >>

(***************************************************************************)
(* Claims about the order of the steps of a run (Spec).                   *)
(***************************************************************************)
\* the I/O operations that have been started and not yet answered: the GET
\* awaited, the token POST awaited, the writeFile awaited (the function is
\* at its await while pc is "save" or "write"), the dot process running
InFlight ==
    (IF inflight # NoUrl THEN 1 ELSE 0)
    + (IF tokenPost = "sent" THEN 1 ELSE 0)
    + (IF pc \in {"save", "write"} THEN 1 ELSE 0)
    + (IF renderer.state = "running" THEN 1 ELSE 0)

\* the workbook of the entity is on disk
WorkbookWritten(e) == \E f \in files : f.path[2] = e

\* C21: at most one I/O operation is in flight in every state; a fetch is
\* started only when no fetch is pending and nothing is in flight; the
\* driver moves to an entity only when nothing is in flight and, for every
\* entity but the first, the one before has resolved with its workbook
\* written and its three diagram passes over
Thm_C21_StrictlySequential ==
    /\ [](InFlight <= 1)
    /\ [][(fetched.status # "pending" /\ fetched'.status = "pending") =>
             (fetched.status = "idle" /\ InFlight = 0)]_vars
    /\ [][coll' # coll => (inflight = NoUrl /\ inflight' = NoUrl)]_vars
    /\ [][position' # position =>
             /\ position' = position + 1
             /\ InFlight' = 0
             /\ position > 0 =>
                    /\ InFlight = 0
                    /\ pc = "done"
                    /\ settled.status = "resolved"
                    /\ WorkbookWritten(listOfEntites[position])
                    /\ Len(history.loops) = Len(relationshipTypes)
                    /\ rendering.status # "pending"]_vars

\* the second entity awaits a GET after the first was exported and drawn
Wit_C21_SecondEntityFetching ==
    /\ position = 2
    /\ inflight # NoUrl
    /\ InFlight = 1
    /\ WorkbookWritten(listOfEntites[1])
    /\ \E f \in diagramFiles : f.name[1] = listOfEntites[1]

\* the entities of the lines of one kind, in the order they were logged
EntitiesLogged(kind) ==
    LET at == SelectSeq([i \in DOMAIN notices |-> i], LAMBDA i : notices[i].kind = kind)
    IN [k \in DOMAIN at |-> notices[at[k]].entity]

\* the run has ended and the driver caught nothing
EndedClean == pc = "exit" /\ \A i \in DOMAIN notices : notices[i].kind # "Unhandled error"

\* C22: in a run of the driver the invocations of processEntityAll follow
\* the entity list, one per name from its start, and every GET carries the
\* one access token of the run; a run that ends without a caught error has
\* invoked processEntityAll once for every name of the list, in list order,
\* each invocation has returned, and the run ended after the last name
Thm_C22_OnceEachInListOrder ==
    DriverRun =>
        /\ EntitiesLogged("Processing entity") = SubSeq(listOfEntites, 1, position)
        /\ \A i \in DOMAIN requests : requests[i].authorization = <<"Bearer ", accessToken>>
        /\ EndedClean =>
               /\ position = Len(listOfEntites)
               /\ EntitiesLogged("Processing entity") = listOfEntites
               /\ EntitiesLogged("Finished processing entity") = listOfEntites
               /\ \A k \in DOMAIN listOfEntites : WorkbookWritten(listOfEntites[k])
               /\ notices[Len(notices)] =
                      [kind |-> "Finished processing entity", entity |-> listOfEntites[Len(listOfEntites)]]

\* a run over more than one entity has ended without an error
Wit_C22_RunCompleted ==
    /\ EndedClean
    /\ entry = MainEntry
    /\ Len(listOfEntites) > 1
    /\ position = Len(listOfEntites)
    /\ accessToken = Str("token")
    /\ requests # << >>

\* the five categories in the order processEntityAll fetches them
CategoryOrder == <<"attributes", "relationships", "forms", "views", "rules">>

\* the place of a collection's category in that order
OrderOf(c) == CHOOSE k \in DOMAIN CategoryOrder : CategoryOrder[k] = CategoryOf(c)

\* a GET of processEntityAll has failed; the Columns step of the revisions
\* that call addColumnsSheet is left out
ExportFetchFailed ==
    /\ faults # << >>
    /\ entry.function = "processEntityAll" \/ (entry = MainEntry /\ position > 0)
    /\ ~(CategoryOf(faults[1][1].collection) = "attributes" /\ entry.source # "src/unnamed/part_001")

\* C23: after a failed GET of processEntityAll nothing more is requested;
\* if the failure came before the workbook was saved, processEntityAll is
\* rejected with that failure once the rejection has been handed on, no
\* category after the failing one was fetched, no workbook of the entity
\* is on disk, and neither the re-fetch nor a rendering has taken place
Thm_C23_NoPartialExport ==
    ExportFetchFailed =>
        /\ Len(faults) = 1
        /\ requests[Len(requests)] = faults[1][1]
        /\ ~history.saveReached =>
               /\ pc \in {CategoryOf(faults[1][1].collection), "done", "exit"}
               /\ pc # CategoryOf(faults[1][1].collection) => settled = Rejected(faults[1][2])
               /\ \A i \in DOMAIN requests :
                      requests[i].entity = entityName =>
                          OrderOf(requests[i].collection) <= OrderOf(faults[1][1].collection)
               /\ ~WorkbookWritten(entityName)
               /\ history.refetched = << >>
               /\ history.loops = << >>
               /\ renderer.state = "none"
               /\ \A f \in diagramFiles : f.name[1] # entityName

\* the Forms fetch failed: two sheets are in memory, nothing is on disk
Wit_C23_FormsFetchFailed ==
    /\ entry.function = "processEntityAll"
    /\ entry.source = HeadSource
    /\ pc = "done"
    /\ faults # << >>
    /\ faults[1][1].collection = "systemforms"
    /\ settled = Rejected(faults[1][2])
    /\ Len(workbook) = 2
    /\ files = {}

RelationshipCollections == {"OneToManyRelationships", "ManyToOneRelationships", "ManyToManyRelationships"}

\* how often the first page of a collection was requested for an entity
FirstPageGets(e, c) ==
    Cardinality({i \in DOMAIN requests :
                    requests[i].entity = e /\ requests[i].collection = c /\ requests[i].page = 1})

\* the workbook of the running processEntityAll is on disk as it is in memory
WorkbookOnDisk == \E f \in files : f.path = WrittenPath(entry) /\ f.sheets = workbook

\* C24: while processEntityAll runs, no relationship collection is
\* requested more than twice for its entity, and the second request, every
\* pass of the diagram loop and every start of the renderer find the
\* workbook written; a processEntityAll that was rejected after a
\* successful save leaves the workbook on disk; one that resolved has
\* requested each relationship collection exactly twice
Thm_C24_DiagramsAfterWorkbook ==
    (entry.function = "processEntityAll" /\ entry.source = HeadSource) =>
        /\ \A c \in RelationshipCollections :
               /\ FirstPageGets(entityName, c) <= 2
               /\ FirstPageGets(entityName, c) = 2 => WorkbookOnDisk
        /\ (history.refetched # << >> \/ history.loops # << >> \/ renderer.state # "none") => WorkbookOnDisk
        /\ (pc = "done" /\ history.saveReached /\ history.writeError = "none") =>
               /\ WorkbookOnDisk
               /\ Len(workbook) = Len(CategoryOrder)
        /\ (pc = "done" /\ settled.status = "resolved") =>
               \A c \in RelationshipCollections : FirstPageGets(entityName, c) = 2

\* the renderer failed after the workbook was written: the file is there
Wit_C24_RenderFailedWorkbookKept ==
    /\ entry.function = "processEntityAll"
    /\ pc = "done"
    /\ settled.status = "rejected"
    /\ settled.error \in RenderErrors
    /\ WorkbookOnDisk
    /\ Len(workbook) = 5
    /\ \A c \in RelationshipCollections : FirstPageGets(entityName, c) = 2

(***************************************************************************)
(* Claims about the order of the requests of a fetcher (SpecFetch).        *)
(***************************************************************************)
\* the place of a relationship collection in the order of its fetcher
RelIndex(c) == CHOOSE i \in DOMAIN Collections("relationships") : Collections("relationships")[i] = c

\* C25: fetchEntityRelationships requests its three collections in the
\* order one-to-many, many-to-one, many-to-many, a collection only after
\* the one before it was read to its end; when it resolves, its result is
\* the records of the three collections one after the other in that order,
\* as many as the three hold together; when a request fails it rejects
\* without a value and no collection after the failing one was requested
Thm_C25_ThreeCollectionsInOrder ==
    fetcher.category = "relationships" =>
        /\ \A i \in DOMAIN requests :
               /\ RelIndex(requests[i].collection) <= Len(parts) + 1
               /\ \A j \in DOMAIN requests :
                      i < j => RelIndex(requests[i].collection) <= RelIndex(requests[j].collection)
        /\ fetched.status = "resolved" =>
               /\ fetched.value = ChainRecords(ChainOf(1)) \o ChainRecords(ChainOf(2)) \o ChainRecords(ChainOf(3))
               /\ Len(fetched.value) = SumSizes(ChainOf(1)) + SumSizes(ChainOf(2)) + SumSizes(ChainOf(3))
               /\ \A c \in RelationshipCollections : \E i \in DOMAIN requests : requests[i].collection = c
        /\ fetched.status = "rejected" =>
               /\ fetched.value = << >>
               /\ \A i \in DOMAIN requests :
                      RelIndex(requests[i].collection) <= RelIndex(faults[1][1].collection)

\* the three collections were read, one of them over two pages, and each
\* gave records
Wit_C25_ThreeNonEmptyParts ==
    /\ fetcher.category = "relationships"
    /\ fetched.status = "resolved"
    /\ Len(requests) = 4
    /\ \A i \in 1..3 : parts[i] # << >>
    /\ parts[1] # parts[3]

(***************************************************************************)
(* Claims about the token and the filters of a run (Spec).                 *)
(***************************************************************************)
\* the rows handed to the sheet "Business Rules" of the workbook in progress
BusinessRuleRows ==
    UNION {{history.added[i].rows[k] : k \in DOMAIN history.added[i].rows} :
              i \in {j \in DOMAIN history.added : history.added[j].name = "Business Rules"}}

\* C26: every request for workflows asks for category 2 and for the primary
\* entity, and every row of the sheet "Business Rules" has the Category
\* "Business Rule"
Claim_C26_OnlyBusinessRules ==
    /\ \A i \in DOMAIN requests :
           requests[i].collection = "workflows" =>
               {"category eq 2", "primaryentity eq entityName"} \subseteq requests[i].filter
    /\ \A r \in BusinessRuleRows : RowGet(r, "Category") = Str("Business Rule")

\* C27: a run sends the token POST once and never again; while the POST
\* is not answered no GET is sent and no entity is processed; a failed
\* POST ends the run with no request sent and no entity processed; every
\* GET carries the token the POST returned, and the token stays the same
\* for the rest of the run
Thm_C27_OneTokenFirst ==
    /\ [](DriverRun =>
            /\ tokenPost \in {"none", "sent"} => (requests = << >> /\ inflight = NoUrl /\ position = 0)
            /\ tokenPost = "failed" => (requests = << >> /\ position = 0 /\ pc = "exit" /\ files = {})
            /\ position > 0 => tokenPost = "answered"
            /\ \A i \in DOMAIN requests : requests[i].authorization = <<"Bearer ", accessToken>>)
    /\ [][tokenPost' # tokenPost =>
             \/ tokenPost = "none" /\ tokenPost' = "sent"
             \/ tokenPost = "sent" /\ tokenPost' \in {"answered", "failed"}]_vars
    /\ [][tokenPost = "answered" => accessToken' = accessToken]_vars

\* the second entity of a run is being fetched with the token of the POST
Wit_C27_SecondEntityWithToken ==
    /\ position = 2
    /\ tokenPost = "answered"
    /\ accessToken = Str("token")
    /\ \E i \in DOMAIN requests :
           requests[i].entity = listOfEntites[2] /\ requests[i].authorization = <<"Bearer ", Str("token")>>
    /\ \E i \in DOMAIN requests : requests[i].entity = listOfEntites[1]

\* C28: no GET goes out without a token: the bearer token of every request
\* is a non-empty string, and a token response without access_token is
\* followed by no request and no entity
Claim_C28_BearerNeverEmpty ==
    /\ \A i \in DOMAIN requests :
           /\ requests[i].authorization[2][1] = "string"
           /\ requests[i].authorization[2][2] # ""
    /\ (DriverRun /\ tokenPost = "answered" /\ accessToken = Undefined) =>
           (requests = << >> /\ position = 0)

(***************************************************************************)
(* Claims about the end of the paging loop (SpecFetchLive).                *)
(***************************************************************************)
\* the pages of all collections of the fetcher in progress
PagesToRead ==
    LET n == Len(Collections(fetcher.category))
    IN IF n = 1 THEN Len(ChainOf(1)) ELSE Len(ChainOf(1)) + Len(ChainOf(2)) + Len(ChainOf(3))

\* C30: a paging fetch sends one GET per page: the first request of a
\* collection goes to its first page, every later one to the continuation
\* link of the page before it, and no page is requested twice; the loop
\* ends after the first page whose link is absent or empty, so a fetch that
\* resolves has sent as many requests as its chains have pages; and every
\* fetch over finite chains comes to an end
Thm_C30_PagingTerminates ==
    /\ [](fetcher.category \in Paging =>
            /\ Len(requests) <= PagesToRead
            /\ \A k \in DOMAIN requests :
                   IF k > 1 /\ LinkTruthy(PageAt(requests[k - 1]).next)
                   THEN UrlOf(requests[k]) = PageAt(requests[k - 1]).next
                   ELSE /\ requests[k].page = 1
                        /\ \A j \in 1..(k - 1) : requests[j].collection # requests[k].collection
            /\ \A j \in DOMAIN requests : \A k \in DOMAIN requests :
                   j # k => UrlOf(requests[j]) # UrlOf(requests[k])
            /\ fetched.status = "resolved" =>
                   /\ Len(requests) = PagesToRead
                   /\ ~LinkTruthy(PageAt(requests[Len(requests)]).next))
    /\ <>(fetched.status # "pending")

\* a chain of MaxPages pages was read to its last page, whose link is empty
Wit_C30_LastLinkEmpty ==
    /\ fetcher.category \in Paging \ {"relationships"}
    /\ fetched.status = "resolved"
    /\ Len(requests) = MaxPages
    /\ PageAt(requests[MaxPages]).next = EmptyLink

(***************************************************************************)
(* Claims about invocations of generateRelationshipDiagram that overlap   *)
(* (SpecOverlap).                                                          *)
(***************************************************************************)
\* C29: whatever the interleaving of the invocations, a dot process that
\* reads an input reads the description its own invocation wrote and never
\* finds the path empty, no callback throws at the removal of the file,
\* the file a callback removes is the one its invocation wrote, and an
\* invocation whose callback has run has a settled promise
Claim_C29_OverlapSafe ==
    \A i \in DOMAIN overlap :
        /\ overlap[i].hasRead => overlap[i].read = dotContent(i)
        /\ overlap[i].state \notin {"noinput", "thrown"}
        /\ overlap[i].state = "settled" =>
               /\ overlap[i].removed = dotContent(i)
               /\ overlap[i].promise.status \in {"resolved", "rejected"}


============================================================================
